---- MODULE Spec2Model ----
(***************************************************************************)
(* DSPi / FoxDAC firmware: PCM->PDM hand-off ring, Core 1 modulator loop,  *)
(* control-plane staging (main loop against the USB interrupt), and the    *)
(* per-channel delay lines.                                                *)
(*                                                                         *)
(* The firmware's buffer sizes are scaled down (RingSlots, DmaWords, ...);  *)
(* every derived size keeps the ratio it has in the firmware.              *)
(***************************************************************************)
EXTENDS Integers, Naturals, Sequences, FiniteSets, TLC

\* ------------------------------------------------------------------------
\* BOUNDS
\* ------------------------------------------------------------------------
\* slots of the PCM->PDM ring; the firmware has RING_SIZE 256 with uint8_t
\* indices, so that an index wraps exactly at the ring size
RingSlots == 3
\* words of the circular PDM DMA buffer; the firmware has 2048
DmaWords == 8
\* MAX_DELAY_SAMPLES, the length of a delay line; the firmware has 8192
DelaySlots == 4
\* host control requests explored
MaxReq == 3
\* buffers of the S/PDIF pool; the firmware has AUDIO_BUFFER_COUNT 8
PoolBuffers == 3
\* USB frames per second; the firmware has 1000 (one packet per 1 ms frame).
\* A packet carries rate / FramesPerSecond samples.
FramesPerSecond == 2
\* audio packets explored
MaxPkts == 3
\* sampling-rate requests explored while streaming
MaxRateReq == 2
\* volume steps of a loudness table; the firmware has LOUDNESS_VOL_STEPS 91
LoudSteps == 3
\* calls of loudness_recompute_table explored
MaxRecompute == 3

\* ------------------------------------------------------------------------
\* pdm_generator.c : sizes
\* ------------------------------------------------------------------------
RING_SIZE == RingSlots
PDM_DMA_BUFFER_SIZE == DmaWords
\* const int32_t TARGET_LEAD = 256  (PDM_DMA_BUFFER_SIZE / 8 in the firmware)
TARGET_LEAD == PDM_DMA_BUFFER_SIZE \div 8
\* the "+ 128" of  delta > TARGET_LEAD + 128  (PDM_DMA_BUFFER_SIZE / 16)
SLEEP_MARGIN == PDM_DMA_BUFFER_SIZE \div 16
\* words written per PCM sample: for (chunk = 0; chunk < 8; chunk++), scaled
\* with the buffer (PDM_DMA_BUFFER_SIZE / 256 in the firmware)
PDM_CHUNKS == IF PDM_DMA_BUFFER_SIZE >= 256 THEN PDM_DMA_BUFFER_SIZE \div 256 ELSE 1
\* pdm_push_sample calls explored: enough to fill the ring and wrap its indices
MaxPush == RING_SIZE + 1

VARIABLES
    \* --- PCM->PDM ring (pdm_generator.c) ---
    pdm_ring,            \* shared memory: slot -> [sample, reset]
    pdm_head,            \* shared memory: producer index
    pdm_tail,            \* consumer index
    overruns,            \* legacy counter (main.c:21)
    pdm_ring_overruns,   \* counter reported by REQ_GET_STATUS wValue 3
    relaxed,             \* TRUE: Core 0 stores may become visible out of order
    storeBuf,            \* Core 0 stores not yet visible to Core 1
    \* --- pdm_push_sample activation on Core 0 ---
    pushPc,              \* "idle", "check", "store", "publish", "sev"
    pushArg,             \* [sample, reset] of the call in progress
    next_head,
    pushCalls,           \* number of calls made so far
    \* --- Core 1 loop (pdm_core1_entry) ---
    c1pc,
    delta,
    local_pdm_write,
    msg,                 \* local pdm_msg_t
    sample_value,
    core1_event,         \* Core 1 event register (set by SEV, cleared by WFE)
    dma_read_idx,        \* (read_addr - pdm_dma_buffer) / 4
    \* --- history ---
    accepted,            \* samples accepted by the producer, in call order
    produced,            \* accepted pushes whose call has returned
    consumed,            \* messages taken out of the ring by Core 1
    \* --- control plane: staging slots (usb_audio.c) ---
    eq_update_pending,
    pending_packet,      \* the four words of the staged EqParamPacket
    rate_change_pending,
    pending_rate,
    audio_state_freq,    \* audio_state.freq
    \* --- main loop on Core 0 (main.c) ---
    mainPc,
    irq_enabled,         \* FALSE between save_and_disable / restore_interrupts
    main_event,          \* Core 0 event register
    p,                   \* local EqParamPacket p, word by word
    copyIdx,             \* words of pending_packet copied into p so far
    r,                   \* local uint32_t r
    \* --- DSP tables (dsp_pipeline.c), row-major [channel][band] ---
    filter_recipes,
    filters,
    channel_bypassed,
    stray_store,         \* a store landed outside the two tables
    \* --- perform_rate_change (main.c) ---
    active_rate,         \* rate the filters and the PDM clock were last set for
    clock_176mhz,
    sync_started,
    total_samples_produced,
    pdm_clkdiv,          \* PDM state machine clock divider, in 1/256
    rate_log,            \* history: every rate applied, with the state derived
    \* --- history ---
    staged,              \* every SET_EQ_PARAM payload staged so far
    reqs,                \* host requests served so far
    \* --- delay (dsp_pipeline.c, usb_audio.c, flash_storage.c) ---
    channel_delays_ms,   \* in microseconds
    channel_delay_samples,
    delay_lines,
    delay_write_idx,
    delayed,             \* per output: offset used and value read for the last sample
    sampleNo,            \* samples processed so far
    flash_image,         \* the FlashStorage record in the last sector, or NoImage
    \* --- main loop of the TinyUSB build (unnamed/part_001) ---
    loopPc,              \* "tud_task", "pkt_prefill", "pkt_body", "pkt_give",
                         \* "sample", "feedback", "eq", "rate"
    now,                 \* time_us_64(), in USB frames
    \* --- process_audio_packet (usb_audio.c) ---
    last_packet_time_us,
    start_time_us,
    audio_buffer,        \* local: the buffer taken, or NoBuf
    sample_count,        \* local: data_len / 4
    prefill_i,           \* local: i of the pre-fill loop
    spdif_overruns,
    spdif_underruns,
    \* --- S/PDIF buffer pool and driver (audio_spdif.c) ---
    pool_free,           \* buffers on the free list
    pool_queue,          \* buffers given and not yet taken by the DMA
    playing_buffer,      \* inst->playing_buffer
    format_freq,         \* audio_format_48k.sample_freq
    inst_freq,           \* inst->freq
    spdif_divider,       \* S/PDIF state machine clock divider, in 1/256
    \* --- update_audio_feedback ---
    fb,                  \* value last passed to tud_audio_n_fb_set
    \* --- history ---
    started,             \* every buffer started on the DMA, in order
    given,               \* every buffer given to the pool, in order
    pkt_log,             \* per packet received: what it met on arrival
    epoch_pkts,           \* packets counted since the drift epoch was set
    \* --- loudness tables (unnamed/part_002) ---
    loudness_tables,
    active_buf,
    loudness_active_table,
    loudPc,
    vol_idx,
    write_buf,
    loud_args,
    loud_calls,
    loud_seen,
    \* --- DSP parameters and the per-sample loop of one packet ---
    global_preamp_db,
    global_preamp_mul,
    bypass_master_eq,
    channel_gain_db,
    channel_gain_mul,
    channel_mute,
    vol_mul,
    loud_cfg,
    loudness_recompute_pending,
    usb_events,
    smp_i,
    l_vol_mul,
    l_preamp,
    l_bypassed,
    used,
    smp_pkts,
    \* --- flash_storage.c ---
    flash_result,        \* what the last flash_save_params / flash_load_params returned
    saved_params,        \* the parameter state at the last save, or NoneSaved
    \* --- process_audio_packet: one left sample through the output stages ---
    conv_in,             \* raw sample and the parameters it meets
    conv_out,            \* <<out[i*2]>> once the sample is written
    \* --- pdm_core1_entry: the modulator of one sample, with its numbers ---
    local_pdm_err,
    local_pdm_err2,
    chunk,               \* words of the current sample already stored
    mod_samples,         \* samples modulated so far
    held,                \* every sample so far was limited to +PDM_CLIP_THRESH
    \* --- the flash device ---
    xip_busy,            \* an erase or program is running: XIP reads stall
    \* --- the feedback value computed for one drift ---
    fb_in,               \* which function, the rate, the drift
    fb_out,              \* <<feedback>> once computed
    \* --- multi-instance S/PDIF driver (audio_spdif.c) ---
    spdif_instances,     \* instance -> [pio, dma_irq, enabled, playing_buffer]
    irq_enable_count,    \* DMA IRQ line -> reference count (uint8_t)
    irq_line_enabled,    \* DMA IRQ line -> enabled in the interrupt controller
    sm_age,              \* instance -> control writes since its SM started
    dma_busy,            \* instance -> its channel has a transfer in flight
    dma_status,          \* instance -> its channel has raised its IRQ line
    consumer_pool,       \* instance -> [free, full] buffers of its pool
    sync_calls,          \* audio_spdif_enable_sync calls made
    sync_instances       \* the instances[] of the last such call

ringVars == <<pdm_ring, pdm_head, pdm_tail, overruns, pdm_ring_overruns,
              relaxed, storeBuf>>
pushVars == <<pushPc, pushArg, next_head, pushCalls>>
core1Vars == <<c1pc, delta, local_pdm_write, msg, sample_value, core1_event,
               dma_read_idx>>
histVars == <<accepted, produced, consumed>>

stageVars == <<eq_update_pending, pending_packet, rate_change_pending,
               pending_rate, audio_state_freq>>
mainVars == <<mainPc, irq_enabled, main_event, p, copyIdx, r>>
tableVars == <<filter_recipes, filters, channel_bypassed, stray_store>>
rateVars == <<active_rate, clock_176mhz, sync_started, total_samples_produced,
              pdm_clkdiv, rate_log>>
ctlVars == <<stageVars, mainVars, tableVars, rateVars, staged, reqs>>
lineVars == <<delay_lines, delay_write_idx, delayed, sampleNo>>
dlyVars == <<channel_delays_ms, channel_delay_samples, lineVars, flash_image>>

audioVars == <<loopPc, now, last_packet_time_us, start_time_us, audio_buffer,
               sample_count, prefill_i, spdif_overruns, spdif_underruns,
               pool_free, pool_queue, playing_buffer, format_freq, inst_freq,
               spdif_divider, fb, started, given, pkt_log, epoch_pkts>>

loudVars == <<loudness_tables, active_buf, loudness_active_table, loudPc,
              vol_idx, write_buf, loud_args, loud_calls, loud_seen>>

paramVars == <<global_preamp_db, global_preamp_mul, bypass_master_eq,
               channel_gain_db, channel_gain_mul, channel_mute, vol_mul,
               loud_cfg, loudness_recompute_pending>>
smpVars == <<usb_events, smp_i, l_vol_mul, l_preamp, l_bypassed, used,
             smp_pkts>>
flashVars == <<flash_result, saved_params>>
convVars == <<conv_in, conv_out>>
\* state of the single-purpose specifications
modVars == <<local_pdm_err, local_pdm_err2, chunk, mod_samples, held>>
xipVars == <<xip_busy>>
fbVars == <<fb_in, fb_out>>
spdVars == <<spdif_instances, irq_enable_count, irq_line_enabled, sm_age,
             dma_busy, dma_status, consumer_pool, sync_calls, sync_instances>>
extraVars == <<fbVars, spdVars>>
nonSpdVars == <<ringVars, pushVars, core1Vars, histVars, ctlVars, dlyVars,
                audioVars, loudVars, paramVars, smpVars, flashVars, convVars,
                modVars, xipVars, fbVars>>
auxVars == <<convVars, modVars, xipVars, extraVars>>
dspVars == <<paramVars, smpVars, flashVars, auxVars>>
vars == <<ringVars, pushVars, core1Vars, histVars, ctlVars, dlyVars, audioVars,
          loudVars, dspVars>>

\* ------------------------------------------------------------------------
\* helpers
\* ------------------------------------------------------------------------
\* uint8_t wrap of the ring indices (RING_SIZE = 2^8 in the firmware)
WrapIdx(i) == i % RING_SIZE
\* (a - b) & (PDM_DMA_BUFFER_SIZE - 1)
DmaMask(x) == x % PDM_DMA_BUFFER_SIZE

NoMsg == [sample |-> 0, reset |-> FALSE]

Abs(x) == IF x < 0 THEN -x ELSE x

\* the producer without its full test: every call is accepted
RingFullUnchecked(nh, tail) == FALSE

\* if (next_head != pdm_tail) ... else: the ring is full
RingFull(nh, tail) == nh = tail

\* Core 0 reads its own latest store to pdm_head (store forwarding)
Core0Head ==
    LET HeadStores == SelectSeq(storeBuf, LAMBDA e : e.addr = <<"head">>) IN
      IF HeadStores = <<>> THEN pdm_head
      ELSE HeadStores[Len(HeadStores)].val

\* Memory after one Core 0 store has become visible to Core 1
ApplyStore(e) ==
    /\ pdm_head' = IF e.addr = <<"head">> THEN e.val ELSE pdm_head
    /\ pdm_ring' = IF e.addr[1] = "slot"
                      THEN [pdm_ring EXCEPT ![e.addr[2]] = e.val]
                      ELSE pdm_ring

\* A Core 0 store.  No barrier is issued anywhere in pdm_push_sample, so in
\* the relaxed memory model the store is parked until it drains.
Core0Store(e) ==
    IF relaxed
      THEN /\ storeBuf' = Append(storeBuf, e)
           /\ UNCHANGED <<pdm_head, pdm_ring>>
      ELSE /\ ApplyStore(e)
           /\ UNCHANGED storeBuf

\* A parked store becomes visible.  Stores to different addresses may drain
\* in any order; stores to one address drain in program order.
Drain ==
    /\ relaxed
    /\ \E k \in 1..Len(storeBuf) :
          /\ \A j \in 1..(k - 1) : storeBuf[j].addr # storeBuf[k].addr
          /\ ApplyStore(storeBuf[k])
          /\ storeBuf' = [i \in 1..(Len(storeBuf) - 1) |->
                              IF i < k THEN storeBuf[i] ELSE storeBuf[i + 1]]
    /\ UNCHANGED <<pdm_tail, overruns, pdm_ring_overruns, relaxed>>
    /\ UNCHANGED <<pushVars, core1Vars, histVars>>
    /\ UNCHANGED <<ctlVars, dlyVars, audioVars>>
    /\ UNCHANGED loudVars
    /\ UNCHANGED dspVars

\* ------------------------------------------------------------------------
\* Init
\* ------------------------------------------------------------------------
InitPdm ==
    /\ pdm_ring = [i \in 0..(RING_SIZE - 1) |-> NoMsg]
    /\ pdm_head = 0
    /\ pdm_tail = 0
    \* audio_spdif_set_enabled started the first transfer with nothing queued
    /\ overruns = 1
    /\ pdm_ring_overruns = 0
    /\ storeBuf = <<>>
    /\ pushPc = "idle"
    /\ pushArg = NoMsg
    /\ next_head = 0
    /\ pushCalls = 0
    /\ c1pc = "top"
    /\ delta = 0
    /\ local_pdm_write = 0
    /\ msg = NoMsg
    /\ sample_value = 0
    /\ core1_event = FALSE
    /\ dma_read_idx = 0
    /\ local_pdm_err = 0
    /\ local_pdm_err2 = 0
    /\ chunk = 0
    /\ mod_samples = 0
    /\ held = TRUE
    /\ xip_busy = FALSE
    /\ accepted = <<>>
    /\ produced = 0
    /\ consumed = <<>>

\* ------------------------------------------------------------------------
\* pdm_push_sample (Core 0, called once per sample by the audio callback)
\* ------------------------------------------------------------------------
\* Entry: uint8_t next_head = pdm_head + 1.  The n-th call carries sample n;
\* process_audio_packet passes reset = false (usb_audio.c:365).
PushCall ==
    /\ pushPc = "idle"
    /\ pushCalls < MaxPush
    /\ pushArg' = [sample |-> pushCalls + 1, reset |-> FALSE]
    /\ pushCalls' = pushCalls + 1
    /\ next_head' = WrapIdx(Core0Head + 1)
    /\ pushPc' = "check"
    /\ UNCHANGED <<ringVars, core1Vars, histVars>>
    /\ UNCHANGED <<ctlVars, dlyVars, audioVars>>
    /\ UNCHANGED loudVars
    /\ UNCHANGED dspVars

\* if (next_head != pdm_tail) { pdm_msg_t msg; msg.sample = ...; msg.reset = ... }
PushAccept ==
    /\ pushPc = "check"
    /\ ~RingFull(next_head, pdm_tail)
    /\ pushPc' = "store"
    /\ accepted' = Append(accepted, pushArg)
    /\ UNCHANGED <<ringVars, pushArg, next_head, pushCalls, core1Vars,
                   produced, consumed>>
    /\ UNCHANGED <<ctlVars, dlyVars, audioVars>>
    /\ UNCHANGED loudVars
    /\ UNCHANGED dspVars

\* else { overruns++; }   -- the legacy counter of main.c:21
PushDrop ==
    /\ pushPc = "check"
    /\ RingFull(next_head, pdm_tail)
    /\ overruns' = overruns + 1
    /\ pushPc' = "idle"
    /\ UNCHANGED <<pdm_ring, pdm_head, pdm_tail, pdm_ring_overruns, relaxed,
                   storeBuf, pushArg, next_head, pushCalls, core1Vars,
                   accepted, produced, consumed>>
    /\ UNCHANGED <<ctlVars, dlyVars, audioVars>>
    /\ UNCHANGED loudVars
    /\ UNCHANGED dspVars

\* pdm_ring[pdm_head] = msg;
PushStore ==
    /\ pushPc = "store"
    /\ Core0Store([addr |-> <<"slot", Core0Head>>, val |-> pushArg])
    /\ pushPc' = "publish"
    /\ UNCHANGED <<pdm_tail, overruns, pdm_ring_overruns, relaxed, pushArg,
                   next_head, pushCalls, core1Vars, histVars>>
    /\ UNCHANGED <<ctlVars, dlyVars, audioVars>>
    /\ UNCHANGED loudVars
    /\ UNCHANGED dspVars

\* pdm_head = next_head;
PushPublish ==
    /\ pushPc = "publish"
    /\ Core0Store([addr |-> <<"head">>, val |-> next_head])
    /\ pushPc' = "sev"
    /\ UNCHANGED <<pdm_tail, overruns, pdm_ring_overruns, relaxed, pushArg,
                   next_head, pushCalls, core1Vars, histVars>>
    /\ UNCHANGED <<ctlVars, dlyVars, audioVars>>
    /\ UNCHANGED loudVars
    /\ UNCHANGED dspVars

\* __sev();  and return.  The event is signalled once the stores issued
\* before it have completed (the implicit barrier of signal emission).
PushSev ==
    /\ pushPc = "sev"
    /\ storeBuf = <<>>
    /\ core1_event' = TRUE
    /\ pushPc' = "idle"
    /\ produced' = produced + 1
    /\ UNCHANGED <<ringVars, pushArg, next_head, pushCalls, c1pc, delta,
                   local_pdm_write, msg, sample_value, dma_read_idx,
                   accepted, consumed>>
    /\ UNCHANGED <<ctlVars, dlyVars, audioVars>>
    /\ UNCHANGED loudVars
    /\ UNCHANGED dspVars

\* ------------------------------------------------------------------------
\* PDM DMA channel: reads one word of the circular buffer per request
\* ------------------------------------------------------------------------
DmaTick ==
    /\ dma_read_idx' = DmaMask(dma_read_idx + 1)
    /\ UNCHANGED <<ringVars, pushVars, c1pc, delta, local_pdm_write, msg,
                   sample_value, core1_event, histVars>>
    /\ UNCHANGED <<ctlVars, dlyVars, audioVars>>
    /\ UNCHANGED loudVars
    /\ UNCHANGED dspVars

\* ------------------------------------------------------------------------
\* pdm_core1_entry (Core 1), one action per shared access
\* ------------------------------------------------------------------------
\* delta = (local_pdm_write - current_read_idx) & (PDM_DMA_BUFFER_SIZE - 1)
Lead(w, rd) == DmaMask(w - rd + PDM_DMA_BUFFER_SIZE)

\* delta > (PDM_DMA_BUFFER_SIZE / 2)
IsUnderrun(d) == d > (PDM_DMA_BUFFER_SIZE \div 2)

\* lines 110-121: observe the DMA read index; underrun recovery
C1Top ==
    /\ c1pc = "top"
    /\ LET d == Lead(local_pdm_write, dma_read_idx) IN
         IF IsUnderrun(d)
           THEN /\ local_pdm_write' = DmaMask(dma_read_idx + TARGET_LEAD)
                /\ delta' = TARGET_LEAD
           ELSE /\ delta' = d
                /\ UNCHANGED local_pdm_write
    /\ c1pc' = "poll"
    /\ UNCHANGED <<ringVars, pushVars, msg, sample_value, core1_event,
                   dma_read_idx, histVars>>
    /\ UNCHANGED <<ctlVars, dlyVars, audioVars>>
    /\ UNCHANGED loudVars
    /\ UNCHANGED dspVars

\* lines 123-133: have_sample = (pdm_head != pdm_tail) and the three branches
C1Poll ==
    /\ c1pc = "poll"
    /\ IF pdm_head # pdm_tail
         THEN /\ c1pc' = "pop"
              /\ UNCHANGED sample_value
         ELSE IF delta < TARGET_LEAD
           THEN /\ c1pc' = "modulate"
                /\ sample_value' = 0
           ELSE /\ c1pc' = "wait_chk"
                /\ UNCHANGED sample_value
    /\ UNCHANGED <<ringVars, pushVars, delta, local_pdm_write, msg,
                   core1_event, dma_read_idx, histVars>>
    /\ UNCHANGED <<ctlVars, dlyVars, audioVars>>
    /\ UNCHANGED loudVars
    /\ UNCHANGED dspVars

\* line 135: while (pdm_head == pdm_tail)
C1WaitCheck ==
    /\ c1pc = "wait_chk"
    /\ c1pc' = IF pdm_head = pdm_tail THEN "wait_dma" ELSE "woke"
    /\ UNCHANGED <<ringVars, pushVars, delta, local_pdm_write, msg,
                   sample_value, core1_event, dma_read_idx, histVars>>
    /\ UNCHANGED <<ctlVars, dlyVars, audioVars>>
    /\ UNCHANGED loudVars
    /\ UNCHANGED dspVars

\* lines 137-147: recheck delta; break, spin or sleep
C1WaitDma ==
    /\ c1pc = "wait_dma"
    /\ LET d == Lead(local_pdm_write, dma_read_idx) IN
         /\ delta' = d
         /\ c1pc' = IF d < TARGET_LEAD \/ IsUnderrun(d) THEN "woke"
                    ELSE IF d > TARGET_LEAD + SLEEP_MARGIN THEN "wfe"
                    ELSE "wait_chk"
    /\ UNCHANGED <<ringVars, pushVars, local_pdm_write, msg, sample_value,
                   core1_event, dma_read_idx, histVars>>
    /\ UNCHANGED <<ctlVars, dlyVars, audioVars>>
    /\ UNCHANGED loudVars
    /\ UNCHANGED dspVars

\* line 146: __wfe() returns only when the event register is set, and clears it
C1Wfe ==
    /\ c1pc = "wfe"
    /\ core1_event
    /\ core1_event' = FALSE
    /\ c1pc' = "wait_chk"
    /\ UNCHANGED <<ringVars, pushVars, delta, local_pdm_write, msg,
                   sample_value, dma_read_idx, histVars>>
    /\ UNCHANGED <<ctlVars, dlyVars, audioVars>>
    /\ UNCHANGED loudVars
    /\ UNCHANGED dspVars

\* lines 151-157: check what woke us
C1Woke ==
    /\ c1pc = "woke"
    /\ IF pdm_head # pdm_tail
         THEN /\ c1pc' = "pop"
              /\ UNCHANGED sample_value
         ELSE /\ c1pc' = "modulate"
              /\ sample_value' = 0
    /\ UNCHANGED <<ringVars, pushVars, delta, local_pdm_write, msg,
                   core1_event, dma_read_idx, histVars>>
    /\ UNCHANGED <<ctlVars, dlyVars, audioVars>>
    /\ UNCHANGED loudVars
    /\ UNCHANGED dspVars

\* pdm_msg_t msg = pdm_ring[pdm_tail];
C1Pop ==
    /\ c1pc = "pop"
    /\ msg' = pdm_ring[pdm_tail]
    /\ c1pc' = "pop_t"
    /\ consumed' = Append(consumed, msg')
    /\ UNCHANGED <<ringVars, pushVars, delta, local_pdm_write, sample_value,
                   core1_event, dma_read_idx, accepted, produced>>
    /\ UNCHANGED <<ctlVars, dlyVars, audioVars>>
    /\ UNCHANGED loudVars
    /\ UNCHANGED dspVars

\* pdm_tail++;  sample_value = msg.sample;
C1PopTail ==
    /\ c1pc = "pop_t"
    /\ pdm_tail' = WrapIdx(pdm_tail + 1)
    /\ sample_value' = msg.sample
    /\ msg' = NoMsg
    /\ c1pc' = "modulate"
    /\ UNCHANGED <<pdm_ring, pdm_head, overruns, pdm_ring_overruns, relaxed,
                   storeBuf, pushVars, delta, local_pdm_write,
                   core1_event, dma_read_idx, histVars>>
    /\ UNCHANGED <<ctlVars, dlyVars, audioVars>>
    /\ UNCHANGED loudVars
    /\ UNCHANGED dspVars

\* lines 160-201: limiter, 256x oversampling; every chunk stores one word at
\* pdm_dma_buffer[local_pdm_write] and advances local_pdm_write.  The locals
\* of the iteration (delta, msg, sample_value) are dead at its end and are
\* returned to their initial values.
C1Modulate ==
    /\ c1pc = "modulate"
    /\ local_pdm_write' = DmaMask(local_pdm_write + PDM_CHUNKS)
    /\ c1pc' = "top"
    /\ delta' = 0
    /\ sample_value' = 0
    /\ UNCHANGED <<ringVars, pushVars, msg, core1_event,
                   dma_read_idx, histVars>>
    /\ UNCHANGED <<ctlVars, dlyVars, audioVars>>
    /\ UNCHANGED loudVars
    /\ UNCHANGED dspVars

\* ------------------------------------------------------------------------
\* config.h, dsp_pipeline.c : tables and delay sizes
\* ------------------------------------------------------------------------
NUM_CHANNELS == 5
MAX_BANDS == 12
CH_OUT_LEFT == 2
CH_OUT_RIGHT == 3
CH_OUT_SUB == 4
\* uint8_t channel_band_counts[NUM_CHANNELS], RP2040 build; entry ch + 1
channel_band_counts == <<10, 10, 2, 2, 2>>
\* entries of filter_recipes[NUM_CHANNELS][MAX_BANDS] and of filters[][]
TableSlots == NUM_CHANNELS * MAX_BANDS

\* #define MAX_DELAY_SAMPLES 8192, scaled
MAX_DELAY_SAMPLES == DelaySlots
\* audio samples explored: the write index wraps twice
MaxSamples == 2 * MAX_DELAY_SAMPLES + 1
\* x & MAX_DELAY_MASK
DelayMask(x) == x % MAX_DELAY_SAMPLES
\* #define SUB_ALIGN_SAMPLES 128 = MAX_DELAY_SAMPLES / 64, rounded up when scaled
SUB_ALIGN_SAMPLES == (MAX_DELAY_SAMPLES + 63) \div 64

\* An EqParamPacket as its four 32-bit words:
\* {channel, band, type, reserved}, freq (Hz), Q (1/1000), gain_db (1/100 dB)
Pkt(ch, b, t, f, q, g) == <<[channel |-> ch, band |-> b, type |-> t], f, q, g>>
ZeroPkt == Pkt(0, 0, 0, 0, 0, 0)
PKT_WORDS == 4

\* &table[p.channel][p.band] as an offset from the start of the table
Slot(pk) == pk[1].channel * MAX_BANDS + pk[1].band

\* is_filter_flat: FILTER_FLAT, freq <= 0, or peaking/shelf with |gain| < 0.01
is_filter_flat(pk) ==
    \/ pk[1].type = 0
    \/ pk[2] <= 0
    \/ (pk[1].type \in {1, 2, 3} /\ pk[4] = 0)

\* b0 = 1 << FILTER_SHIFT, b1 = b2 = a1 = a2 = 0: the identity filter
IdentityCoef == <<>>

\* dsp_compute_coefficients: the biquad is a function of the recipe and the
\* sample rate.  The coefficients of the five filter types are kept symbolic;
\* a type the switch does not name leaves b0_f = a0_f = 1 and the rest 0,
\* which is stored as the identity filter.
dsp_compute_coefficients(pk, sample_rate) ==
    IF is_filter_flat(pk) \/ sample_rate = 0
      THEN [bypass |-> TRUE, coef |-> IdentityCoef]
    ELSE IF pk[1].type \in 1..5
      THEN [bypass |-> FALSE,
            coef |-> <<pk[1].type, pk[2], pk[3], pk[4], sample_rate>>]
      ELSE [bypass |-> FALSE, coef |-> IdentityCoef]

\* dsp_init_default_filters: recipes
DefaultRecipes ==
    [i \in 0..(TableSlots - 1) |->
        IF i \in {CH_OUT_LEFT * MAX_BANDS, CH_OUT_RIGHT * MAX_BANDS}
          THEN Pkt(0, 0, 5, 80, 707, 0)
        ELSE IF i = CH_OUT_SUB * MAX_BANDS
          THEN Pkt(0, 0, 4, 80, 707, 0)
        ELSE Pkt(0, 0, 0, 1000, 707, 0)]

\* dsp_init_default_filters: biquads
DefaultFilters ==
    [i \in 0..(TableSlots - 1) |-> [bypass |-> TRUE, coef |-> IdentityCoef]]

\* dsp_recalculate_all_filters: the loop over b < channel_band_counts[ch]
RecalcFilters(rec, flt, sample_rate) ==
    [i \in 0..(TableSlots - 1) |->
        IF (i % MAX_BANDS) < channel_band_counts[(i \div MAX_BANDS) + 1]
          THEN dsp_compute_coefficients(rec[i], sample_rate)
          ELSE flt[i]]

\* dsp_recalculate_all_filters: channel_bypassed[ch] = all_bypassed
RecalcBypassed(flt) ==
    [ch \in 0..(NUM_CHANNELS - 1) |->
        \A b \in 0..(channel_band_counts[ch + 1] - 1) :
            flt[ch * MAX_BANDS + b].bypass]

\* (int32_t)(ms * sample_rate / 1000.0f) and the clamp that follows it;
\* the delay is held in microseconds and the arithmetic is exact
DelaySamples(us, sample_rate, align) ==
    LET n == ((us * sample_rate) \div 1000000) + align IN
      IF n > MAX_DELAY_SAMPLES THEN MAX_DELAY_SAMPLES ELSE n

\* dsp_update_delay_samples: left, right, sub (with SUB_ALIGN_SAMPLES)
dsp_update_delay_samples(ms, sample_rate) ==
    [i \in 0..2 |->
        IF i = 0 THEN DelaySamples(ms[CH_OUT_LEFT], sample_rate, 0)
        ELSE IF i = 1 THEN DelaySamples(ms[CH_OUT_RIGHT], sample_rate, 0)
        ELSE DelaySamples(ms[CH_OUT_SUB], sample_rate, SUB_ALIGN_SAMPLES)]

\* perform_rate_change: switch (new_freq) { ... default: new_freq = 44100; }
CoerceRate(f) == IF f \in {44100, 48000, 96000} THEN f ELSE 44100

\* a clock switch that only ever goes to the 176 MHz setting
SysClock176OneWay(new_freq, cur) ==
    IF new_freq = 44100 THEN TRUE ELSE cur

\* perform_rate_change: clock_176mhz after the two set_sys_clock_pll branches
SysClock176(new_freq, cur) ==
    IF new_freq \in {48000, 96000} /\ cur THEN FALSE
    ELSE IF new_freq = 44100 /\ ~cur THEN TRUE
    ELSE cur

\* clk_sys in Hz: set_sys_clock_pll(1236000000, 7, 1) or (1440000000, 6, 1)
SysClockHz(is176) == IF is176 THEN 1236000000 \div 7 ELSE 1440000000 \div 6

PDM_OVERSAMPLE == 256
\* pdm_update_clock: clock_get_hz(clk_sys) / (freq * PDM_OVERSAMPLE), as the
\* divider the state machine holds (integer part and 8 fractional bits)
PdmClkDiv(sys_hz, freq) == ((sys_hz \div freq) * 256) \div PDM_OVERSAMPLE

\* the state derived from the sample rate
DerivedState(flt, byp, dly, is176, div) ==
    [filters |-> flt, channel_bypassed |-> byp, channel_delay_samples |-> dly,
     clock_176mhz |-> is176, pdm_clkdiv |-> div]

\* ------------------------------------------------------------------------
\* State after core0_init (usb_sound_card_init, pdm_setup_hw)
\* ------------------------------------------------------------------------
InitCtl ==
    /\ eq_update_pending = FALSE
    /\ pending_packet = ZeroPkt
    /\ rate_change_pending = TRUE
    /\ pending_rate = 44100
    /\ audio_state_freq = 44100
    /\ mainPc = "eq_check"
    /\ irq_enabled = TRUE
    /\ main_event = FALSE
    /\ p = ZeroPkt
    /\ copyIdx = 0
    /\ r = 0
    /\ filter_recipes = DefaultRecipes
    /\ filters = RecalcFilters(DefaultRecipes, DefaultFilters, 48000)
    /\ channel_bypassed =
          RecalcBypassed(RecalcFilters(DefaultRecipes, DefaultFilters, 48000))
    /\ stray_store = FALSE
    /\ active_rate = 48000
    /\ clock_176mhz = FALSE
    /\ sync_started = FALSE
    /\ total_samples_produced = 0
    /\ pdm_clkdiv = PdmClkDiv(SysClockHz(FALSE), 48000)
    /\ staged = {}
    /\ reqs = 0

\* ------------------------------------------------------------------------
\* Stored parameters (flash_storage.c)
\* ------------------------------------------------------------------------
\* gains in whole dB: unity, a boost, a cut
GainInputs == {0, 6, -20}
\* powf(10.0f, db / 20.0f), in thousandths
PowLinear(db) ==
    CASE db = 0 -> 1000
      [] db = 6 -> 1995
      [] db = -20 -> 100
\* (int32_t)(linear * 32768.0f)
Q15(milli) == (milli * 32768) \div 1000
\* (int32_t)(linear * (float)(1<<28)), computed without leaving 32 bits
Q28(milli) == milli * 268435 + (milli * 456) \div 1000

\* loudness_enabled, loudness_ref_spl, loudness_intensity_pct
LoudCfg(en, spl, pct) == [enabled |-> en, ref_spl |-> spl, intensity |-> pct]

FLASH_MAGIC == 1146310705
FLASH_VERSION == 3
FLASH_OK == 0
FLASH_ERR_NO_DATA == 2
FLASH_ERR_CRC == 3

\* the erased sector
NoImage == <<>>
NoneSaved == <<>>

\* the data section of a FlashStorage as the sequence of its fields
FlatRecipes(rec) ==
    [k \in 1..(6 * TableSlots) |->
        LET pk == rec[(k - 1) \div 6]
            w == (k - 1) % 6
        IN IF w = 0 THEN pk[1].channel
           ELSE IF w = 1 THEN pk[1].band
           ELSE IF w = 2 THEN pk[1].type
           ELSE pk[w - 1]]
FlashFields(d) ==
    FlatRecipes(d.recipes)
      \o <<d.preamp_db, IF d.bypass THEN 1 ELSE 0>>
      \o [i \in 1..NUM_CHANNELS |-> d.delays[i - 1]]
      \o [i \in 1..3 |-> d.gain_db[i - 1]]
      \o [i \in 1..3 |-> IF d.mute[i - 1] THEN 1 ELSE 0]
      \o <<IF d.loud.enabled THEN 1 ELSE 0, d.loud.ref_spl, d.loud.intensity>>

\* crc32 over the data section: a 16-bit position-weighted checksum stands
\* for the 32-bit polynomial one
RECURSIVE CrcFold(_, _, _)
CrcFold(f, lo, hi) ==
    IF lo = hi THEN (lo * f[lo]) % 65521
    ELSE LET mid == (lo + hi) \div 2
         IN (CrcFold(f, lo, mid) + CrcFold(f, mid + 1, hi)) % 65521
crc32(d) == LET f == FlashFields(d) IN CrcFold(f, 1, Len(f))

\* flash_load_params, lines 142-157 and 168-177: 10^(db/20) by the Taylor
\* series of e^x to the fourth power, x = db * ln(10)/20, db clamped to
\* -60 .. 20; in thousandths, every product rounded down
TaylorLinear(db) ==
    IF db = 0 THEN 1000
    ELSE LET c == IF db < -60 THEN -60 ELSE IF db > 20 THEN 20 ELSE db
             x == (c * 115129) \div 1000
             x2 == (x * x) \div 1000
             x3 == (x2 * x) \div 1000
             x4 == ((x2 \div 10) * x2) \div 100
             linear == 1000 + x + x2 \div 2 + x3 \div 6 + x4 \div 24
         IN IF linear < 0 THEN 0 ELSE linear

\* the parameters flash_save_params copies into the data section
FlashDataOf(rec, pre, byp, dly, gain, mute, loud) ==
    [recipes |-> rec, preamp_db |-> pre, bypass |-> byp, delays |-> dly,
     gain_db |-> gain, mute |-> mute, loud |-> loud]
FlashData ==
    FlashDataOf(filter_recipes, global_preamp_db, bypass_master_eq,
                channel_delays_ms, channel_gain_db, channel_mute, loud_cfg)
\* storage.magic, storage.version, storage.crc32 and the data section
FlashRecord(d) ==
    [magic |-> FLASH_MAGIC, version |-> FLASH_VERSION, crc |-> crc32(d),
     data |-> d]

\* the parameter state: what is stored, and the two multipliers derived
\* from the stored gains
ParamState ==
    [data |-> FlashData, preamp_mul |-> global_preamp_mul,
     gain_mul |-> channel_gain_mul]

\* what flash_load_params returns for the record it finds
FlashCheck(img) ==
    IF img = NoImage THEN FLASH_ERR_NO_DATA
    ELSE IF img.magic # FLASH_MAGIC THEN FLASH_ERR_NO_DATA
    ELSE IF img.version > FLASH_VERSION THEN FLASH_ERR_NO_DATA
    ELSE IF crc32(img.data) # img.crc THEN FLASH_ERR_CRC
    ELSE FLASH_OK

\* flash_save_params: the record is built, the sector erased and programmed
flash_save_params ==
    /\ flash_image' = FlashRecord(FlashData)
    /\ flash_result' = FLASH_OK
    /\ saved_params' = ParamState

\* flash_load_params: nothing is written unless all three checks pass
flash_load_params ==
    /\ flash_result' = FlashCheck(flash_image)
    /\ IF FlashCheck(flash_image) = FLASH_OK
         THEN LET d == flash_image.data IN
                /\ filter_recipes' = d.recipes
                /\ global_preamp_db' = d.preamp_db
                /\ global_preamp_mul' = Q28(TaylorLinear(d.preamp_db))
                /\ bypass_master_eq' = d.bypass
                /\ channel_delays_ms' = d.delays
                /\ IF flash_image.version >= 2
                     THEN /\ channel_gain_db' = d.gain_db
                          /\ channel_gain_mul' =
                                [c \in 0..2 |-> Q15(TaylorLinear(d.gain_db[c]))]
                          /\ channel_mute' = d.mute
                     ELSE UNCHANGED <<channel_gain_db, channel_gain_mul,
                                      channel_mute>>
                /\ IF flash_image.version >= 3
                     THEN /\ loud_cfg' = d.loud
                          /\ loudness_recompute_pending' = TRUE
                     ELSE UNCHANGED <<loud_cfg, loudness_recompute_pending>>
         ELSE UNCHANGED <<filter_recipes, global_preamp_db, global_preamp_mul,
                          bypass_master_eq, channel_delays_ms,
                          channel_gain_db, channel_gain_mul, channel_mute,
                          loud_cfg, loudness_recompute_pending>>

\* flash_factory_reset: the delays are not touched and flash is not erased
flash_factory_reset ==
    /\ filter_recipes' = DefaultRecipes
    /\ global_preamp_db' = 0
    /\ global_preamp_mul' = 268435456
    /\ bypass_master_eq' = FALSE
    /\ channel_gain_db' = [c \in 0..2 |-> 0]
    /\ channel_gain_mul' = [c \in 0..2 |-> 32768]
    /\ channel_mute' = [c \in 0..2 |-> FALSE]
    /\ loud_cfg' = LoudCfg(FALSE, 83, 100)
    /\ loudness_recompute_pending' = TRUE

InitDly ==
    /\ channel_delays_ms = [ch \in 0..(NUM_CHANNELS - 1) |-> 0]
    /\ channel_delay_samples =
          dsp_update_delay_samples([ch \in 0..(NUM_CHANNELS - 1) |-> 0], 48000)
    /\ delay_lines = [c \in 0..2 |-> [i \in 0..(MAX_DELAY_SAMPLES - 1) |-> 0]]
    /\ delay_write_idx = 0
    /\ delayed = [c \in 0..2 |-> [d |-> 0, v |-> 0]]
    /\ sampleNo = 0
    \* the state derived at boot, for 48 kHz
    /\ rate_log = <<[rate |-> 48000,
                     derived |-> DerivedState(filters, channel_bypassed,
                                     channel_delay_samples, clock_176mhz,
                                     pdm_clkdiv)]>>

\* ------------------------------------------------------------------------
\* Host requests.  The handlers run in the USB interrupt: each runs to its
\* end once taken, and none is taken while interrupts are disabled.
\* ------------------------------------------------------------------------
\* payloads the host sends: a valid slot, a band at the channel's count, a
\* band past MAX_BANDS and a channel past NUM_CHANNELS, each with three
\* bodies: a peaking filter, a low-pass, and a type byte past FILTER_HIGHPASS
EqInputs ==
    {Pkt(h[1], h[2], b[1], b[2], b[3], b[4]) :
        h \in {<<0, 0>>, <<2, 2>>, <<0, 13>>, <<5, 0>>},
        b \in {<<1, 1000, 1000, 300>>, <<4, 80, 707, 0>>, <<6, 1000, 707, 0>>}}
RateInputs == {44100, 48000, 96000, 88200}
DelayChannels == {CH_OUT_LEFT, CH_OUT_SUB, NUM_CHANNELS}
\* microseconds: a negative value, and for every offset d up to one past the
\* line length the shortest delay that gives d samples at 44.1 kHz
DelayInputs == {-63} \cup {0} \cup
               {(1000000 * d) \div 44100 + 1 : d \in 1..(MAX_DELAY_SAMPLES + 1)}

\* REQ_SET_EQ_PARAM: memcpy(&pending_packet, ...); eq_update_pending = true
UsbSetEqParam ==
    /\ irq_enabled
    /\ reqs < MaxReq
    /\ \E pk \in EqInputs :
          /\ pending_packet' = pk
          /\ staged' = staged \cup {pk}
    /\ eq_update_pending' = TRUE
    /\ main_event' = TRUE
    /\ reqs' = reqs + 1
    /\ UNCHANGED <<rate_change_pending, pending_rate, audio_state_freq,
                   mainPc, irq_enabled, p, copyIdx, r, tableVars, rateVars>>
    /\ UNCHANGED <<audioVars, ringVars, pushVars, core1Vars, histVars, dlyVars>>
    /\ UNCHANGED loudVars
    /\ UNCHANGED dspVars

\* SET_CUR sampling frequency: if (audio_state.freq != new_freq) { ... }
UsbSetRate ==
    /\ irq_enabled
    /\ reqs < MaxReq
    /\ \E new_freq \in RateInputs :
          IF audio_state_freq # new_freq
            THEN /\ audio_state_freq' = new_freq
                 /\ rate_change_pending' = TRUE
                 /\ pending_rate' = new_freq
            ELSE UNCHANGED <<audio_state_freq, rate_change_pending, pending_rate>>
    /\ main_event' = TRUE
    /\ reqs' = reqs + 1
    /\ UNCHANGED <<eq_update_pending, pending_packet, mainPc, irq_enabled, p,
                   copyIdx, r, tableVars, rateVars, staged>>
    /\ UNCHANGED <<audioVars, ringVars, pushVars, core1Vars, histVars, dlyVars>>
    /\ UNCHANGED loudVars
    /\ UNCHANGED dspVars

\* REQ_SET_DELAY: if (ch < NUM_CHANNELS) { if (ms < 0) ms = 0; ... }
UsbSetDelay ==
    /\ irq_enabled
    /\ reqs < MaxReq
    /\ \E ch \in DelayChannels, us \in DelayInputs :
          IF ch < NUM_CHANNELS
            THEN LET ms == [channel_delays_ms EXCEPT
                               ![ch] = IF us < 0 THEN 0 ELSE us] IN
                   /\ channel_delays_ms' = ms
                   /\ channel_delay_samples' =
                         dsp_update_delay_samples(ms, audio_state_freq)
            ELSE UNCHANGED <<channel_delays_ms, channel_delay_samples>>
    /\ main_event' = TRUE
    /\ reqs' = reqs + 1
    /\ UNCHANGED <<stageVars, mainPc, irq_enabled, p, copyIdx, r, tableVars,
                   rateVars, staged, lineVars, flash_image>>
    /\ UNCHANGED <<audioVars, ringVars, pushVars, core1Vars, histVars>>
    /\ UNCHANGED loudVars
    /\ UNCHANGED dspVars

\* REQ_SAVE_PARAMS: flash_save_params
UsbSaveParams ==
    /\ irq_enabled
    /\ reqs < MaxReq
    /\ flash_save_params
    /\ main_event' = TRUE
    /\ reqs' = reqs + 1
    /\ UNCHANGED <<stageVars, mainPc, irq_enabled, p, copyIdx, r, tableVars,
                   rateVars, staged, channel_delays_ms,
                   channel_delay_samples, lineVars>>
    /\ UNCHANGED <<audioVars, ringVars, pushVars, core1Vars, histVars>>
    /\ UNCHANGED loudVars
    /\ UNCHANGED <<paramVars, smpVars>>
    /\ UNCHANGED auxVars

\* REQ_LOAD_PARAMS: flash_load_params, then on FLASH_OK
\* dsp_recalculate_all_filters and dsp_update_delay_samples at audio_state.freq
UsbLoadParams ==
    /\ irq_enabled
    /\ reqs < MaxReq
    /\ flash_load_params
    /\ IF FlashCheck(flash_image) = FLASH_OK
         THEN /\ filters' = RecalcFilters(filter_recipes', filters,
                                          audio_state_freq)
              /\ channel_bypassed' = RecalcBypassed(filters')
              /\ channel_delay_samples' =
                    dsp_update_delay_samples(channel_delays_ms',
                                             audio_state_freq)
         ELSE UNCHANGED <<filters, channel_bypassed, channel_delay_samples>>
    /\ main_event' = TRUE
    /\ reqs' = reqs + 1
    /\ UNCHANGED <<stageVars, mainPc, irq_enabled, p, copyIdx, r, stray_store,
                   rateVars, staged, lineVars, flash_image>>
    /\ UNCHANGED <<audioVars, ringVars, pushVars, core1Vars, histVars>>
    /\ UNCHANGED loudVars
    /\ UNCHANGED <<vol_mul, smpVars, saved_params>>
    /\ UNCHANGED auxVars

\* REQ_FACTORY_RESET: flash_factory_reset (dsp_init_default_filters; the
\* delays are not touched), then the same two recalculations
UsbFactoryReset ==
    /\ irq_enabled
    /\ reqs < MaxReq
    /\ flash_factory_reset
    /\ filters' = RecalcFilters(DefaultRecipes, DefaultFilters, audio_state_freq)
    /\ channel_bypassed' = RecalcBypassed(filters')
    /\ channel_delay_samples' =
          dsp_update_delay_samples(channel_delays_ms, audio_state_freq)
    /\ main_event' = TRUE
    /\ reqs' = reqs + 1
    /\ UNCHANGED <<stageVars, mainPc, irq_enabled, p, copyIdx, r, stray_store,
                   rateVars, staged, channel_delays_ms, lineVars,
                   flash_image>>
    /\ UNCHANGED <<audioVars, ringVars, pushVars, core1Vars, histVars>>
    /\ UNCHANGED loudVars
    /\ UNCHANGED <<vol_mul, smpVars, flashVars>>
    /\ UNCHANGED auxVars

\* ------------------------------------------------------------------------
\* process_audio_packet: the delay stage of one sample (usb_audio.c:347-356)
\* ------------------------------------------------------------------------
\* the n-th value entering delay line c (every value is distinct and nonzero)
SampleIn(c, n) == 4 * n + c

\* a read with the offset added to the write index instead of subtracted
DelayReadAhead(lines, c) ==
    lines[c][DelayMask(delay_write_idx + channel_delay_samples[c])]

\* delay_lines[c][(delay_write_idx - channel_delay_samples[c]) & MAX_DELAY_MASK]
DelayRead(lines, c) ==
    lines[c][DelayMask(delay_write_idx - channel_delay_samples[c])]

\* channel_mute[c] ? 0 : out   (lines 330-332, at unity gain and volume)
MuteStage(c, n) == IF channel_mute[c] THEN 0 ELSE SampleIn(c, n)

DelayStage ==
    /\ irq_enabled
    /\ sampleNo < MaxSamples
    /\ LET n == sampleNo + 1
           lines == [c \in 0..2 |->
                       [delay_lines[c] EXCEPT ![delay_write_idx] = MuteStage(c, n)]]
       IN /\ delay_lines' = lines
          /\ delayed' = [c \in 0..2 |->
                [d |-> channel_delay_samples[c],
                 v |-> DelayRead(lines, c)]]
          /\ sampleNo' = n
    /\ delay_write_idx' = DelayMask(delay_write_idx + 1)
    /\ UNCHANGED <<ctlVars, channel_delays_ms, channel_delay_samples, flash_image>>
    /\ UNCHANGED <<audioVars, ringVars, pushVars, core1Vars, histVars>>
    /\ UNCHANGED loudVars
    /\ UNCHANGED dspVars

\* REQ_SET_CHANNEL_MUTE: if (ch < 3) channel_mute[ch] = (buf[0] != 0)
UsbSetChannelMute ==
    /\ irq_enabled
    /\ reqs < MaxReq
    /\ \E ch \in {0, 2, 3}, on \in BOOLEAN :
          IF ch < 3
            THEN channel_mute' = [channel_mute EXCEPT ![ch] = on]
            ELSE UNCHANGED channel_mute
    /\ reqs' = reqs + 1
    /\ UNCHANGED <<global_preamp_db, global_preamp_mul, bypass_master_eq,
                   channel_gain_db, channel_gain_mul, vol_mul, loud_cfg,
                   loudness_recompute_pending, smpVars, flashVars, auxVars>>
    /\ UNCHANGED <<stageVars, mainVars, tableVars, rateVars, staged>>
    /\ UNCHANGED <<ringVars, pushVars, core1Vars, histVars, dlyVars,
                   audioVars, loudVars>>

\* ------------------------------------------------------------------------
\* main loop (main.c:91-111), one action per access to the staging slots
\* ------------------------------------------------------------------------
\* watchdog_update();  if (eq_update_pending)
MainEqCheck ==
    /\ mainPc = "eq_check"
    /\ mainPc' = IF eq_update_pending THEN "copy" ELSE "rate_check"
    /\ UNCHANGED <<stageVars, irq_enabled, main_event, p, copyIdx, r,
                   tableVars, rateVars, staged, reqs>>
    /\ UNCHANGED <<audioVars, ringVars, pushVars, core1Vars, histVars, dlyVars>>
    /\ UNCHANGED loudVars
    /\ UNCHANGED dspVars

\* EqParamPacket p = pending_packet;   (one 32-bit word)
MainCopyWord ==
    /\ mainPc = "copy"
    /\ p' = [p EXCEPT ![copyIdx + 1] = pending_packet[copyIdx + 1]]
    /\ copyIdx' = copyIdx + 1
    /\ mainPc' = IF copyIdx + 1 = PKT_WORDS THEN "clear_eq" ELSE "copy"
    /\ UNCHANGED <<stageVars, irq_enabled, main_event, r, tableVars,
                   rateVars, staged, reqs>>
    /\ UNCHANGED <<audioVars, ringVars, pushVars, core1Vars, histVars, dlyVars>>
    /\ UNCHANGED loudVars
    /\ UNCHANGED dspVars

\* eq_update_pending = false;
MainClearEq ==
    /\ mainPc = "clear_eq"
    /\ eq_update_pending' = FALSE
    /\ copyIdx' = 0
    /\ mainPc' = "store"
    /\ UNCHANGED <<pending_packet, rate_change_pending, pending_rate,
                   audio_state_freq, irq_enabled, main_event, p, r,
                   tableVars, rateVars, staged, reqs>>
    /\ UNCHANGED <<audioVars, ringVars, pushVars, core1Vars, histVars, dlyVars>>
    /\ UNCHANGED loudVars
    /\ UNCHANGED dspVars

\* filter_recipes[p.channel][p.band] = p;
MainStoreRecipe ==
    /\ mainPc = "store"
    /\ IF Slot(p) < TableSlots
         THEN /\ filter_recipes' = [filter_recipes EXCEPT ![Slot(p)] = p]
              /\ UNCHANGED stray_store
         ELSE /\ stray_store' = TRUE
              /\ UNCHANGED filter_recipes
    /\ mainPc' = "irq_off"
    /\ UNCHANGED <<stageVars, irq_enabled, main_event, p, copyIdx, r,
                   filters, channel_bypassed, rateVars, staged, reqs>>
    /\ UNCHANGED <<audioVars, ringVars, pushVars, core1Vars, histVars, dlyVars>>
    /\ UNCHANGED loudVars
    /\ UNCHANGED dspVars

\* uint32_t flags = save_and_disable_interrupts();
MainIrqOff ==
    /\ mainPc = "irq_off"
    /\ irq_enabled' = FALSE
    /\ mainPc' = "compute"
    /\ UNCHANGED <<stageVars, main_event, p, copyIdx, r, tableVars,
                   rateVars, staged, reqs>>
    /\ UNCHANGED <<audioVars, ringVars, pushVars, core1Vars, histVars, dlyVars>>
    /\ UNCHANGED loudVars
    /\ UNCHANGED dspVars

\* dsp_compute_coefficients(&p, &filters[p.channel][p.band], audio_state.freq);
MainCompute ==
    /\ mainPc = "compute"
    /\ IF Slot(p) < TableSlots
         THEN /\ filters' = [filters EXCEPT ![Slot(p)] =
                                dsp_compute_coefficients(p, audio_state_freq)]
              /\ UNCHANGED stray_store
         ELSE /\ stray_store' = TRUE
              /\ UNCHANGED filters
    /\ mainPc' = "irq_on"
    /\ UNCHANGED <<stageVars, irq_enabled, main_event, p, copyIdx, r,
                   filter_recipes, channel_bypassed, rateVars, staged, reqs>>
    /\ UNCHANGED <<audioVars, ringVars, pushVars, core1Vars, histVars, dlyVars>>
    /\ UNCHANGED loudVars
    /\ UNCHANGED dspVars

\* restore_interrupts(flags);   p goes out of scope
MainIrqOn ==
    /\ mainPc = "irq_on"
    /\ irq_enabled' = TRUE
    /\ p' = ZeroPkt
    /\ mainPc' = "rate_check"
    /\ UNCHANGED <<stageVars, main_event, copyIdx, r, tableVars, rateVars,
                   staged, reqs>>
    /\ UNCHANGED <<audioVars, ringVars, pushVars, core1Vars, histVars, dlyVars>>
    /\ UNCHANGED loudVars
    /\ UNCHANGED dspVars

\* if (rate_change_pending)
MainRateCheck ==
    /\ mainPc = "rate_check"
    /\ mainPc' = IF rate_change_pending THEN "rate_read" ELSE "wfe"
    /\ UNCHANGED <<stageVars, irq_enabled, main_event, p, copyIdx, r,
                   tableVars, rateVars, staged, reqs>>
    /\ UNCHANGED <<audioVars, ringVars, pushVars, core1Vars, histVars, dlyVars>>
    /\ UNCHANGED loudVars
    /\ UNCHANGED dspVars

\* uint32_t r = pending_rate;
MainRateRead ==
    /\ mainPc = "rate_read"
    /\ r' = pending_rate
    /\ mainPc' = "rate_clear"
    /\ UNCHANGED <<stageVars, irq_enabled, main_event, p, copyIdx,
                   tableVars, rateVars, staged, reqs>>
    /\ UNCHANGED <<audioVars, ringVars, pushVars, core1Vars, histVars, dlyVars>>
    /\ UNCHANGED loudVars
    /\ UNCHANGED dspVars

\* rate_change_pending = false;
MainRateClear ==
    /\ mainPc = "rate_clear"
    /\ rate_change_pending' = FALSE
    /\ mainPc' = "rate_apply"
    /\ UNCHANGED <<eq_update_pending, pending_packet, pending_rate,
                   audio_state_freq, irq_enabled, main_event, p, copyIdx, r,
                   tableVars, rateVars, staged, reqs>>
    /\ UNCHANGED <<audioVars, ringVars, pushVars, core1Vars, histVars, dlyVars>>
    /\ UNCHANGED loudVars
    /\ UNCHANGED dspVars

\* perform_rate_change(r);
MainRateApply ==
    /\ mainPc = "rate_apply"
    /\ LET new_freq == CoerceRate(r) IN
         /\ clock_176mhz' = SysClock176(new_freq, clock_176mhz)
         /\ channel_delay_samples' =
               dsp_update_delay_samples(channel_delays_ms, new_freq)
         /\ filters' = RecalcFilters(filter_recipes, filters, new_freq)
         /\ channel_bypassed' = RecalcBypassed(filters')
         /\ pdm_clkdiv' = PdmClkDiv(SysClockHz(clock_176mhz'), new_freq)
         /\ active_rate' = new_freq
         /\ rate_log' = Append(rate_log,
               [rate |-> new_freq,
                derived |-> DerivedState(filters', channel_bypassed',
                                channel_delay_samples', clock_176mhz',
                                pdm_clkdiv')])
    /\ sync_started' = FALSE
    /\ total_samples_produced' = 0
    /\ r' = 0
    /\ mainPc' = "wfe"
    /\ UNCHANGED <<stageVars, irq_enabled, main_event, p, copyIdx,
                   filter_recipes, stray_store, staged, reqs>>
    /\ UNCHANGED <<channel_delays_ms, lineVars, flash_image>>
    /\ UNCHANGED <<audioVars, ringVars, pushVars, core1Vars, histVars>>
    /\ UNCHANGED loudVars
    /\ UNCHANGED dspVars

\* __wfe();  returns once the event register is set, and clears it
MainWfe ==
    /\ mainPc = "wfe"
    /\ main_event
    /\ main_event' = FALSE
    /\ mainPc' = "eq_check"
    /\ UNCHANGED <<stageVars, irq_enabled, p, copyIdx, r, tableVars,
                   rateVars, staged, reqs>>
    /\ UNCHANGED <<audioVars, ringVars, pushVars, core1Vars, histVars, dlyVars>>
    /\ UNCHANGED loudVars
    /\ UNCHANGED dspVars

\* ------------------------------------------------------------------------
\* TinyUSB build: main loop (unnamed/part_001:150-184), process_audio_packet
\* and update_audio_feedback (usb_audio.c), S/PDIF driver (audio_spdif.c).
\* Everything on Core 0 runs to completion from the main loop; only the DMA
\* completion interrupt preempts it.  Time is counted in USB frames.
\* ------------------------------------------------------------------------
\* #define AUDIO_GAP_THRESHOLD_US 50000, in frames
AUDIO_GAP_THRESHOLD_US == 50
\* frames from the previous packet to the next one: on time, late (counted
\* as an underrun), exactly the gap threshold, and past it
GapInputs == {1, 3, AUDIO_GAP_THRESHOLD_US, AUDIO_GAP_THRESHOLD_US + 1}
\* sampling rates the host asks for while streaming
AudioRates == {44100, 96000}
\* DMA transfers explored
MaxStart == MaxPkts + 1

NoBuf == [seq |-> -1, silent |-> FALSE]
\* inst->silence_buffer
SilenceBuf == [seq |-> 0, silent |-> TRUE]

\* update_pio_frequency: ceil(clk_sys / sample_freq)
SpdifDivider(sys_hz, sample_freq) ==
    (sys_hz \div sample_freq) + (IF sys_hz % sample_freq # 0 THEN 1 ELSE 0)

\* nominal_10_14 = ((uint64_t)audio_state.freq << 14) / 1000
Nominal(freq) == (freq * 16384) \div FramesPerSecond

\* a gap test that resets only past twice the threshold
IsGapDoubled(sync, last, t) ==
    sync /\ last > 0 /\ (t - last) > 2 * AUDIO_GAP_THRESHOLD_US

\* sync_started && last_packet_time_us > 0 &&
\* (now_us - last_packet_time_us) > AUDIO_GAP_THRESHOLD_US
IsGap(sync, last, t) ==
    sync /\ last > 0 /\ (t - last) > AUDIO_GAP_THRESHOLD_US

\* a loop body that feeds the Sub output only when it holds an S/PDIF buffer
SubPushesWithBuffer(buf, n) == IF buf = NoBuf THEN 0 ELSE n

\* pdm_push_sample calls of the sample loop: one per sample, whether or not
\* audio_buffer is NULL
SubPushes(buf, n) == n

\* The buffer pool library (take_audio_buffer, give_audio_buffer) is not part
\* of the firmware sources.  It is modelled as the design describes it: one
\* pool of PoolBuffers buffers; the audio callback takes a free buffer and
\* gives it back filled, the DMA interrupt takes the filled buffers and frees
\* each one when its transfer has completed.  pool_free counts the free
\* buffers, pool_queue holds the filled ones.

\* a pool that hands the DMA the buffer given last
PoolGiveFront(q, b) == <<b>> \o q

\* give_audio_buffer: the buffer joins the end of the list the DMA takes from
PoolGive(q, b) == Append(q, b)

\* REQ_GET_STATUS: the counter returned for wValue 3, 7 and 8.  wValue 4..6
\* return counters that only the Core 1 loop writes.
GetStatus(wValue) ==
    CASE wValue = 3 -> pdm_ring_overruns
      [] wValue = 7 -> spdif_overruns
      [] wValue = 8 -> spdif_underruns
      [] OTHER -> 0

InitAudio ==
    /\ loopPc = "tud_task"
    /\ now = 0
    /\ last_packet_time_us = 0
    /\ start_time_us = 0
    /\ audio_buffer = NoBuf
    /\ sample_count = 0
    /\ prefill_i = 0
    /\ spdif_overruns = 0
    /\ spdif_underruns = 0
    /\ pool_free = PoolBuffers
    /\ pool_queue = <<>>
    /\ playing_buffer = NoBuf
    /\ format_freq = 48000
    /\ inst_freq = 48000
    /\ spdif_divider = SpdifDivider(SysClockHz(FALSE), 48000)
    /\ fb = 0
    /\ started = <<SilenceBuf>>
    /\ given = <<>>
    /\ pkt_log = <<>>
    /\ epoch_pkts = 0

\* tud_task() with no event to dispatch
TudIdle ==
    /\ loopPc = "tud_task"
    /\ loopPc' = "feedback"
    /\ UNCHANGED <<now, last_packet_time_us, start_time_us, audio_buffer,
                   sample_count, prefill_i, spdif_overruns, spdif_underruns,
                   pool_free, pool_queue, playing_buffer, format_freq,
                   inst_freq, spdif_divider, fb, started, given, pkt_log,
                   epoch_pkts>>
    /\ UNCHANGED <<ringVars, pushVars, core1Vars, histVars, ctlVars, dlyVars>>
    /\ UNCHANGED loudVars
    /\ UNCHANGED dspVars

\* tud_task() -> tud_audio_set_req_entity_cb, clock source SAM_FREQ
TudSetRate ==
    /\ loopPc = "tud_task"
    /\ reqs < MaxRateReq
    /\ \E new_freq \in AudioRates :
          IF audio_state_freq # new_freq
            THEN /\ audio_state_freq' = new_freq
                 /\ rate_change_pending' = TRUE
                 /\ pending_rate' = new_freq
            ELSE UNCHANGED <<audio_state_freq, rate_change_pending, pending_rate>>
    /\ reqs' = reqs + 1
    /\ loopPc' = "feedback"
    /\ UNCHANGED <<now, last_packet_time_us, start_time_us, audio_buffer,
                   sample_count, prefill_i, spdif_overruns, spdif_underruns,
                   pool_free, pool_queue, playing_buffer, format_freq,
                   inst_freq, spdif_divider, fb, started, given, pkt_log,
                   epoch_pkts>>
    /\ UNCHANGED <<eq_update_pending, pending_packet, mainVars, tableVars,
                   rateVars, staged>>
    /\ UNCHANGED <<ringVars, pushVars, core1Vars, histVars, dlyVars>>
    /\ UNCHANGED loudVars
    /\ UNCHANGED dspVars

\* tud_task() -> tud_audio_rx_done_pre_read_cb -> process_audio_packet,
\* lines 120-150: underrun test, take_audio_buffer, gap test
PktTake ==
    /\ loopPc = "tud_task"
    /\ Len(pkt_log) < MaxPkts
    /\ \E dt \in GapInputs :
          LET t == now + dt
              gap == t - last_packet_time_us
              isGap == IsGap(sync_started, last_packet_time_us, t)
          IN /\ now' = t
             /\ spdif_underruns' =
                   IF last_packet_time_us > 0 /\ gap > 2
                        /\ gap < AUDIO_GAP_THRESHOLD_US
                     THEN spdif_underruns + 1 ELSE spdif_underruns
             /\ sync_started' = IF isGap THEN FALSE ELSE sync_started
             /\ total_samples_produced' =
                   IF isGap THEN 0 ELSE total_samples_produced
             /\ epoch_pkts' = IF isGap THEN 0 ELSE epoch_pkts
             /\ prefill_i' = 0
             /\ loopPc' = IF isGap THEN "pkt_prefill" ELSE "pkt_body"
             /\ pkt_log' = Append(pkt_log,
                   [dt |-> dt, n |-> audio_state_freq \div FramesPerSecond,
                    sync |-> sync_started, free |-> pool_free,
                    given |-> Len(given)])
    /\ IF pool_free > 0
         THEN /\ audio_buffer' = [seq |-> 0, silent |-> FALSE]
              /\ pool_free' = pool_free - 1
              /\ UNCHANGED spdif_overruns
         ELSE /\ audio_buffer' = NoBuf
              /\ spdif_overruns' = spdif_overruns + 1
              /\ UNCHANGED pool_free
    /\ sample_count' = audio_state_freq \div FramesPerSecond
    /\ UNCHANGED <<last_packet_time_us, start_time_us, pool_queue,
                   playing_buffer, format_freq, inst_freq, spdif_divider, fb,
                   started, given>>
    /\ UNCHANGED <<stageVars, mainVars, tableVars, active_rate, clock_176mhz,
                   pdm_clkdiv, rate_log, staged, reqs>>
    /\ UNCHANGED <<ringVars, pushVars, core1Vars, histVars, dlyVars>>
    /\ UNCHANGED loudVars
    /\ UNCHANGED dspVars

\* process_audio_packet, lines 152-163: one turn of the pre-fill loop
PktPrefill ==
    /\ loopPc = "pkt_prefill"
    /\ IF pool_free > 0
         THEN LET sb == [seq |-> Len(given) + 1, silent |-> TRUE] IN
                /\ pool_free' = pool_free - 1
                /\ pool_queue' = PoolGive(pool_queue, sb)
                /\ given' = Append(given, sb)
         ELSE UNCHANGED <<pool_free, pool_queue, given>>
    /\ prefill_i' = prefill_i + 1
    /\ loopPc' = IF prefill_i + 1 = 2 THEN "pkt_body" ELSE "pkt_prefill"
    /\ UNCHANGED <<now, last_packet_time_us, start_time_us, audio_buffer,
                   sample_count, spdif_overruns, spdif_underruns,
                   playing_buffer, format_freq, inst_freq, spdif_divider, fb,
                   started, pkt_log, epoch_pkts>>
    /\ UNCHANGED <<ringVars, pushVars, core1Vars, histVars, ctlVars, dlyVars>>
    /\ UNCHANGED loudVars
    /\ UNCHANGED dspVars

\* process_audio_packet, lines 165-374: drift epoch, sample counter, and the
\* sample loop.  Of the loop the number of pdm_push_sample calls is kept; its
\* delay stage is DelayStage and the call itself is Push.
PktBody ==
    /\ loopPc = "pkt_body"
    /\ last_packet_time_us' = now
    /\ start_time_us' = IF ~sync_started THEN now ELSE start_time_us
    /\ sync_started' = TRUE
    /\ total_samples_produced' = total_samples_produced + sample_count
    /\ epoch_pkts' = epoch_pkts + 1
    /\ pushCalls' = pushCalls + SubPushes(audio_buffer, sample_count)
    /\ loopPc' = "pkt_give"
    /\ UNCHANGED <<now, audio_buffer, sample_count, prefill_i, spdif_overruns,
                   spdif_underruns, pool_free, pool_queue, playing_buffer,
                   format_freq, inst_freq, spdif_divider, fb, started, given,
                   pkt_log>>
    /\ UNCHANGED <<stageVars, mainVars, tableVars, active_rate, clock_176mhz,
                   pdm_clkdiv, rate_log, staged, reqs>>
    /\ UNCHANGED <<ringVars, pushPc, pushArg, next_head, core1Vars, histVars,
                   dlyVars>>
    /\ UNCHANGED loudVars
    /\ UNCHANGED dspVars

\* process_audio_packet, line 376: if (audio_buffer) give_audio_buffer(...)
PktGive ==
    /\ loopPc = "pkt_give"
    /\ IF audio_buffer # NoBuf
         THEN LET ab == [seq |-> Len(given) + 1, silent |-> FALSE] IN
                /\ pool_queue' = PoolGive(pool_queue, ab)
                /\ given' = Append(given, ab)
         ELSE UNCHANGED <<pool_queue, given>>
    /\ audio_buffer' = NoBuf
    /\ loopPc' = "feedback"
    /\ UNCHANGED <<now, last_packet_time_us, start_time_us, sample_count,
                   prefill_i, spdif_overruns, spdif_underruns, pool_free,
                   playing_buffer, format_freq, inst_freq, spdif_divider, fb,
                   started, pkt_log, epoch_pkts>>
    /\ UNCHANGED <<ringVars, pushVars, core1Vars, histVars, ctlVars, dlyVars>>
    /\ UNCHANGED loudVars
    /\ UNCHANGED dspVars

\* update_audio_feedback, with the audio function mounted
UpdateFeedback ==
    /\ loopPc = "feedback"
    /\ LET nominal_10_14 == Nominal(audio_state_freq)
           elapsed_us == now - start_time_us
           expected_samples ==
               (elapsed_us * audio_state_freq) \div FramesPerSecond
           drift == total_samples_produced - expected_samples
           scaled == IF drift >= 0 THEN (drift * 16) \div 10
                                   ELSE -(((-drift) * 16) \div 10)
           correction == IF scaled > 8192 THEN 8192
                         ELSE IF scaled < -8192 THEN -8192 ELSE scaled
       IN fb' = IF sync_started /\ total_samples_produced > audio_state_freq
                  THEN nominal_10_14 - correction
                  ELSE nominal_10_14
    /\ loopPc' = "eq"
    /\ UNCHANGED <<now, last_packet_time_us, start_time_us, audio_buffer,
                   sample_count, prefill_i, spdif_overruns, spdif_underruns,
                   pool_free, pool_queue, playing_buffer, format_freq,
                   inst_freq, spdif_divider, started, given, pkt_log,
                   epoch_pkts>>
    /\ UNCHANGED <<ringVars, pushVars, core1Vars, histVars, ctlVars, dlyVars>>
    /\ UNCHANGED loudVars
    /\ UNCHANGED dspVars

\* if (rate_change_pending) { r = pending_rate; rate_change_pending = false;
\* perform_rate_change(r); }   (unnamed/part_001:46-84, 172-176)
LoopRate ==
    /\ loopPc = "rate"
    /\ IF rate_change_pending
         THEN LET new_freq == CoerceRate(pending_rate) IN
                /\ rate_change_pending' = FALSE
                /\ format_freq' = new_freq
                /\ clock_176mhz' = SysClock176(new_freq, clock_176mhz)
                /\ sync_started' = FALSE
                /\ total_samples_produced' = 0
                /\ epoch_pkts' = 0
                /\ channel_delay_samples' =
                      dsp_update_delay_samples(channel_delays_ms, new_freq)
                /\ filters' = RecalcFilters(filter_recipes, filters, new_freq)
                /\ channel_bypassed' = RecalcBypassed(filters')
                /\ pdm_clkdiv' = PdmClkDiv(SysClockHz(clock_176mhz'), new_freq)
                /\ active_rate' = new_freq
                /\ rate_log' = Append(rate_log,
                      [rate |-> new_freq,
                       derived |-> DerivedState(filters', channel_bypassed',
                                       channel_delay_samples', clock_176mhz',
                                       pdm_clkdiv')])
         ELSE UNCHANGED <<rate_change_pending, format_freq, rateVars,
                          epoch_pkts, channel_delay_samples, filters,
                          channel_bypassed>>
    /\ loopPc' = "tud_task"
    /\ UNCHANGED <<now, last_packet_time_us, start_time_us, audio_buffer,
                   sample_count, prefill_i, spdif_overruns, spdif_underruns,
                   pool_free, pool_queue, playing_buffer, inst_freq,
                   spdif_divider, fb, started, given, pkt_log>>
    /\ UNCHANGED <<eq_update_pending, pending_packet, pending_rate,
                   audio_state_freq, mainVars, filter_recipes, stray_store,
                   staged, reqs>>
    /\ UNCHANGED <<channel_delays_ms, lineVars, flash_image>>
    /\ UNCHANGED <<ringVars, pushVars, core1Vars, histVars>>
    /\ UNCHANGED loudVars
    /\ UNCHANGED dspVars

\* audio_spdif_dma_irq_handler: free the finished buffer, then
\* audio_start_dma_transfer (wrap_consumer_take, silence when nothing is
\* queued)
DmaIrq ==
    /\ Len(started) < MaxStart
    /\ LET freed == IF playing_buffer # NoBuf THEN pool_free + 1 ELSE pool_free
       IN pool_free' = freed
    /\ IF format_freq # inst_freq
         THEN /\ inst_freq' = format_freq
              /\ spdif_divider' =
                    SpdifDivider(SysClockHz(clock_176mhz), format_freq)
         ELSE UNCHANGED <<inst_freq, spdif_divider>>
    /\ IF pool_queue # <<>>
         THEN /\ playing_buffer' = Head(pool_queue)
              /\ pool_queue' = Tail(pool_queue)
              /\ started' = Append(started, Head(pool_queue))
              /\ UNCHANGED overruns
         ELSE /\ playing_buffer' = NoBuf
              /\ started' = Append(started, SilenceBuf)
              /\ overruns' = overruns + 1
              /\ UNCHANGED pool_queue
    /\ UNCHANGED <<loopPc, now, last_packet_time_us, start_time_us,
                   audio_buffer, sample_count, prefill_i, spdif_overruns,
                   spdif_underruns, format_freq, fb, given, pkt_log,
                   epoch_pkts>>
    /\ UNCHANGED <<pdm_ring, pdm_head, pdm_tail, pdm_ring_overruns, relaxed,
                   storeBuf>>
    /\ UNCHANGED <<pushVars, core1Vars, histVars, ctlVars, dlyVars>>
    /\ UNCHANGED loudVars
    /\ UNCHANGED dspVars

\* ------------------------------------------------------------------------
\* Loudness compensation tables (unnamed/part_002): two tables, one computed
\* while the other is in use.
\* ------------------------------------------------------------------------
LOUDNESS_VOL_STEPS == LoudSteps
\* loudness_active_table == NULL
NoTable == -1
\* a table entry as the zero-initialised array holds it
ZeroEntry ==
    <<[shelf |-> 0, ref_spl |-> 0, pct |-> 0, rate |-> 0, vol_idx |-> 0],
      [shelf |-> 0, ref_spl |-> 0, pct |-> 0, rate |-> 0, vol_idx |-> 0]>>
\* the reader has found no table
NoneSeen == <<>>
\* (ref_spl, intensity_pct, sample_rate) of the calls explored: the factory
\* values, a reference level below the range with rate 0, and another setting
LoudnessInputs == {<<83, 100, 48000>>, <<30, 100, 0>>, <<60, 50, 44100>>}

\* the arguments as the function uses them: sample_rate < 1 becomes 48000,
\* ref_spl is clamped to 40..100
LoudArgs(in) ==
    [ref_spl |-> IF in[1] < 40 THEN 40 ELSE IF in[1] > 100 THEN 100 ELSE in[1],
     intensity_pct |-> in[2],
     sample_rate |-> IF in[3] < 1 THEN 48000 ELSE in[3]]

\* the low-shelf and high-shelf coefficients of one volume step: a function
\* of the arguments and the step, kept symbolic
LoudEntry(a, v) ==
    <<[shelf |-> 0, ref_spl |-> a.ref_spl, pct |-> a.intensity_pct,
       rate |-> a.sample_rate, vol_idx |-> v],
      [shelf |-> 1, ref_spl |-> a.ref_spl, pct |-> a.intensity_pct,
       rate |-> a.sample_rate, vol_idx |-> v]>>

\* a recomputation that writes into the table in use
LoudWriteBufActive(active) == active

\* uint8_t write_buf = 1 - active_buf;
LoudWriteBuf(active) == 1 - active

InitLoud ==
    /\ loudness_tables =
          [b \in 0..1 |-> [v \in 0..(LOUDNESS_VOL_STEPS - 1) |-> ZeroEntry]]
    /\ active_buf = 0
    /\ loudness_active_table = NoTable
    /\ loudPc = "idle"
    /\ vol_idx = 0
    /\ write_buf = 0
    /\ loud_args = LoudArgs(<<83, 100, 48000>>)
    /\ loud_calls = 0
    /\ loud_seen = NoneSeen

\* loudness_recompute_table, lines 146-154: arguments and write_buf
LoudCall ==
    /\ loudPc = "idle"
    /\ loud_calls < MaxRecompute
    /\ \E in \in LoudnessInputs : loud_args' = LoudArgs(in)
    /\ write_buf' = LoudWriteBuf(active_buf)
    /\ vol_idx' = 0
    /\ loud_calls' = loud_calls + 1
    /\ loudPc' = "fill"
    /\ UNCHANGED <<loudness_tables, active_buf, loudness_active_table,
                   loud_seen>>
    /\ UNCHANGED <<ringVars, pushVars, core1Vars, histVars, ctlVars, dlyVars,
                   audioVars>>
    /\ UNCHANGED dspVars

\* one turn of the loop over vol_idx, lines 161-189
LoudFill ==
    /\ loudPc = "fill"
    /\ loudness_tables' =
          [loudness_tables EXCEPT ![write_buf][vol_idx] =
                                      LoudEntry(loud_args, vol_idx)]
    /\ vol_idx' = vol_idx + 1
    /\ loudPc' = IF vol_idx + 1 < LOUDNESS_VOL_STEPS THEN "fill" ELSE "swap_buf"
    /\ UNCHANGED <<active_buf, loudness_active_table, write_buf, loud_args,
                   loud_calls, loud_seen>>
    /\ UNCHANGED <<ringVars, pushVars, core1Vars, histVars, ctlVars, dlyVars,
                   audioVars>>
    /\ UNCHANGED dspVars

\* active_buf = write_buf;
LoudSwapBuf ==
    /\ loudPc = "swap_buf"
    /\ active_buf' = write_buf
    /\ loudPc' = "swap_ptr"
    /\ UNCHANGED <<loudness_tables, loudness_active_table, vol_idx, write_buf,
                   loud_args, loud_calls, loud_seen>>
    /\ UNCHANGED <<ringVars, pushVars, core1Vars, histVars, ctlVars, dlyVars,
                   audioVars>>
    /\ UNCHANGED dspVars

\* loudness_active_table = loudness_tables[active_buf];
LoudSwapPtr ==
    /\ loudPc = "swap_ptr"
    /\ loudness_active_table' = active_buf
    /\ loudPc' = "idle"
    /\ UNCHANGED <<loudness_tables, active_buf, vol_idx, write_buf, loud_args,
                   loud_calls, loud_seen>>
    /\ UNCHANGED <<ringVars, pushVars, core1Vars, histVars, ctlVars, dlyVars,
                   audioVars>>
    /\ UNCHANGED dspVars

\* The audio loop, which is not part of these sources: as the design has it,
\* it reads the table selection once at the start of a packet and uses that
\* table for the whole packet.  The packet is processed to its end before the
\* main loop, where the recomputation runs, takes another step.
LoudRead ==
    /\ loud_seen' = IF loudness_active_table = NoTable
                      THEN NoneSeen
                      ELSE <<loudness_tables[loudness_active_table]>>
    /\ UNCHANGED <<loudness_tables, active_buf, loudness_active_table, loudPc,
                   vol_idx, write_buf, loud_args, loud_calls>>
    /\ UNCHANGED <<ringVars, pushVars, core1Vars, histVars, ctlVars, dlyVars,
                   audioVars>>
    /\ UNCHANGED dspVars

\* ------------------------------------------------------------------------
\* DSP parameters and the sample loop of one packet (TinyUSB build)
\* ------------------------------------------------------------------------
\* frames in one packet
PktSamples == 2
\* events the USB controller holds for tud_task at one time
MaxQueue == 2

\* volumes in 1/256 dB: 0 dB, -6 dB, and one below MIN_VOLUME
VolumeInputs == {0, -1536, -25600}
CENTER_VOLUME_INDEX == 91
\* the entries of db_to_vol the volumes of VolumeInputs select
db_to_vol(idx) ==
    CASE idx = 0 -> 1
      [] idx = 85 -> 18426
      [] idx = 90 -> 32767
\* audio_set_volume: clamp volume + 91 * 256 to 0 .. 91 * 256 - 1, index >> 8
VolMul(volume) ==
    LET v == volume + CENTER_VOLUME_INDEX * 256
        c == IF v < 0 THEN 0
             ELSE IF v >= 91 * 256 THEN 91 * 256 - 1 ELSE v
    IN db_to_vol(c \div 256)

\* what the host can send: an isochronous audio packet, or the data stage of
\* a vendor or feature-unit request
VendorInputs ==
    {[req |-> "eq", pk |-> Pkt(0, 0, 1, 1000, 1000, 300)],
     [req |-> "preamp", db |-> 6],
     [req |-> "delay", ch |-> CH_OUT_LEFT, us |-> 23],
     [req |-> "bypass", on |-> TRUE],
     [req |-> "gain", ch |-> CH_OUT_RIGHT, db |-> -20],
     [req |-> "gain", ch |-> NUM_CHANNELS, db |-> 6],
     [req |-> "mute", ch |-> CH_OUT_SUB, on |-> TRUE],
     [req |-> "volume", volume |-> -1536]}
AudioPkt == [req |-> "pkt"]

InitDsp ==
    /\ global_preamp_db = 0
    /\ global_preamp_mul = 268435456
    /\ bypass_master_eq = FALSE
    /\ channel_gain_db = [c \in 0..2 |-> 0]
    /\ channel_gain_mul = [c \in 0..2 |-> 32768]
    /\ channel_mute = [c \in 0..2 |-> FALSE]
    /\ vol_mul = VolMul(0)
    /\ loud_cfg = LoudCfg(FALSE, 83, 100)
    /\ loudness_recompute_pending = FALSE
    /\ usb_events = <<>>
    /\ smp_i = 0
    /\ l_vol_mul = 0
    /\ l_preamp = 0
    /\ l_bypassed = FALSE
    /\ used = {}
    /\ smp_pkts = 0
    /\ flash_result = FLASH_OK
    /\ saved_params = NoneSaved

\* everything of audioVars but the main loop's position
audioData == <<now, last_packet_time_us, start_time_us, audio_buffer,
               sample_count, prefill_i, spdif_overruns, spdif_underruns,
               pool_free, pool_queue, playing_buffer, format_freq, inst_freq,
               spdif_divider, fb, started, given, pkt_log, epoch_pkts>>

\* the parameter values one sample of process_audio_packet works with: the
\* locals read before the loop and the globals read inside it
SampleParams ==
    [vol_mul |-> l_vol_mul, preamp |-> l_preamp, is_bypassed |-> l_bypassed,
     filters |-> filters, channel_bypassed |-> channel_bypassed,
     channel_gain_mul |-> channel_gain_mul, channel_mute |-> channel_mute,
     channel_delay_samples |-> channel_delay_samples]

\* USB events are dispatched by tud_task() only, so from the main loop and
\* only at its first statement
DispatchableAnywhere(pc) == TRUE
Dispatchable(pc) == pc = "tud_task"

\* the USB controller receives a transfer while the main loop is anywhere
UsbReceive ==
    /\ Len(usb_events) < MaxQueue
    /\ \/ /\ smp_pkts < MaxPkts
          /\ smp_pkts' = smp_pkts + 1
          /\ usb_events' = Append(usb_events, AudioPkt)
          /\ UNCHANGED reqs
       \/ /\ reqs < MaxReq
          /\ reqs' = reqs + 1
          /\ \E ev \in VendorInputs : usb_events' = Append(usb_events, ev)
          /\ UNCHANGED smp_pkts
    /\ UNCHANGED <<paramVars, smp_i, l_vol_mul, l_preamp, l_bypassed, used,
                   flashVars>>
    /\ UNCHANGED <<stageVars, mainVars, tableVars, rateVars, staged>>
    /\ UNCHANGED <<ringVars, pushVars, core1Vars, histVars, dlyVars,
                   audioVars, loudVars>>
    /\ UNCHANGED auxVars

\* tud_task() -> tud_vendor_control_xfer_cb, CONTROL_STAGE_DATA, and
\* tud_audio_set_req_entity_cb for the feature unit's volume
TudVendorSet ==
    /\ Dispatchable(loopPc)
    /\ usb_events # <<>>
    /\ Head(usb_events) \in VendorInputs
    /\ usb_events' = Tail(usb_events)
    /\ LET ev == Head(usb_events) IN
         /\ IF ev.req = "eq"
              THEN /\ pending_packet' = ev.pk
                   /\ eq_update_pending' = TRUE
                   /\ staged' = staged \cup {ev.pk}
              ELSE UNCHANGED <<pending_packet, eq_update_pending, staged>>
         /\ IF ev.req = "preamp"
              THEN /\ global_preamp_db' = ev.db
                   /\ global_preamp_mul' = Q28(PowLinear(ev.db))
              ELSE UNCHANGED <<global_preamp_db, global_preamp_mul>>
         /\ IF ev.req = "delay" /\ ev.ch < NUM_CHANNELS
              THEN LET ms == [channel_delays_ms EXCEPT
                                 ![ev.ch] = IF ev.us < 0 THEN 0 ELSE ev.us] IN
                     /\ channel_delays_ms' = ms
                     /\ channel_delay_samples' =
                           dsp_update_delay_samples(ms, audio_state_freq)
              ELSE UNCHANGED <<channel_delays_ms, channel_delay_samples>>
         /\ IF ev.req = "bypass"
              THEN bypass_master_eq' = ev.on
              ELSE UNCHANGED bypass_master_eq
         /\ IF ev.req = "gain" /\ ev.ch < 3
              THEN /\ channel_gain_db' = [channel_gain_db EXCEPT ![ev.ch] = ev.db]
                   /\ channel_gain_mul' = [channel_gain_mul EXCEPT
                                              ![ev.ch] = Q15(PowLinear(ev.db))]
              ELSE UNCHANGED <<channel_gain_db, channel_gain_mul>>
         /\ IF ev.req = "mute" /\ ev.ch < 3
              THEN channel_mute' = [channel_mute EXCEPT ![ev.ch] = ev.on]
              ELSE UNCHANGED channel_mute
         /\ IF ev.req = "volume"
              THEN vol_mul' = VolMul(ev.volume)
              ELSE UNCHANGED vol_mul
    /\ UNCHANGED <<loud_cfg, loudness_recompute_pending, smp_i, l_vol_mul,
                   l_preamp, l_bypassed, used, smp_pkts, flashVars>>
    /\ UNCHANGED <<rate_change_pending, pending_rate, audio_state_freq,
                   mainVars, tableVars, rateVars, reqs>>
    /\ UNCHANGED <<lineVars, flash_image>>
    /\ UNCHANGED <<ringVars, pushVars, core1Vars, histVars, audioVars,
                   loudVars>>
    /\ UNCHANGED auxVars

\* tud_task() -> tud_audio_rx_done_pre_read_cb -> process_audio_packet:
\* vol_mul, preamp and is_bypassed are read before the sample loop
SmpStart ==
    /\ Dispatchable(loopPc)
    /\ usb_events # <<>>
    /\ Head(usb_events).req = "pkt"
    /\ usb_events' = Tail(usb_events)
    /\ l_vol_mul' = vol_mul
    /\ l_preamp' = global_preamp_mul
    /\ l_bypassed' = bypass_master_eq
    /\ smp_i' = 0
    /\ used' = {}
    /\ loopPc' = "sample"
    /\ UNCHANGED <<paramVars, smp_pkts, flashVars>>
    /\ UNCHANGED <<ringVars, pushVars, core1Vars, histVars, ctlVars, dlyVars,
                   audioData, loudVars>>
    /\ UNCHANGED auxVars

\* one iteration of  for (i = 0; i < sample_count; i++) { ... } ; after the
\* last one the callback returns and tud_task() with it
SmpStep ==
    /\ loopPc = "sample"
    /\ used' = used \cup {SampleParams}
    /\ smp_i' = smp_i + 1
    /\ loopPc' = IF smp_i + 1 < PktSamples THEN "sample" ELSE "feedback"
    /\ UNCHANGED <<paramVars, usb_events, l_vol_mul, l_preamp, l_bypassed,
                   smp_pkts, flashVars>>
    /\ UNCHANGED <<ringVars, pushVars, core1Vars, histVars, ctlVars, dlyVars,
                   audioData, loudVars>>
    /\ UNCHANGED auxVars

\* if (eq_update_pending) { p = pending_packet; eq_update_pending = false;
\* filter_recipes[p.channel][p.band] = p; dsp_compute_coefficients(...); }
LoopEq ==
    /\ loopPc = "eq"
    /\ IF eq_update_pending
         THEN /\ eq_update_pending' = FALSE
              /\ IF Slot(pending_packet) < TableSlots
                   THEN /\ filter_recipes' = [filter_recipes EXCEPT
                               ![Slot(pending_packet)] = pending_packet]
                        /\ filters' = [filters EXCEPT
                               ![Slot(pending_packet)] =
                                  dsp_compute_coefficients(pending_packet,
                                                           audio_state_freq)]
                        /\ UNCHANGED stray_store
                   ELSE /\ stray_store' = TRUE
                        /\ UNCHANGED <<filter_recipes, filters>>
         ELSE UNCHANGED <<eq_update_pending, filter_recipes, filters,
                          stray_store>>
    /\ loopPc' = "rate"
    /\ UNCHANGED <<pending_packet, rate_change_pending, pending_rate,
                   audio_state_freq, mainVars, channel_bypassed, rateVars,
                   staged, reqs>>
    /\ UNCHANGED <<ringVars, pushVars, core1Vars, histVars, dlyVars,
                   audioData, loudVars, dspVars>>

\* REQ_SAVE_PARAMS, REQ_LOAD_PARAMS, REQ_FACTORY_RESET (vendor IN requests)
FlashRequests == {[req |-> "save"], [req |-> "load"], [req |-> "reset"]}

\* the parameter state usb_sound_card_init leaves
DefaultData ==
    FlashDataOf(DefaultRecipes, 0, FALSE, [ch \in 0..(NUM_CHANNELS - 1) |-> 0],
                [c \in 0..2 |-> 0], [c \in 0..2 |-> FALSE],
                LoudCfg(FALSE, 83, 100))
DefaultParams ==
    [data |-> DefaultData, preamp_mul |-> 268435456,
     gain_mul |-> [c \in 0..2 |-> 32768]]

\* a +6 dB preamp, stored from an earlier session
BoostedData == [DefaultData EXCEPT !.preamp_db = 6]
\* records that flash_load_params rejects at boot (main.c:76-79), so that
\* the defaults stay: the erased sector, another magic number, a record of a
\* later firmware version, and a record whose data no longer match its CRC
BootImages ==
    {NoImage,
     [FlashRecord(BoostedData) EXCEPT !.magic = 0],
     [FlashRecord(BoostedData) EXCEPT !.version = FLASH_VERSION + 1],
     [FlashRecord(BoostedData) EXCEPT !.crc = crc32(DefaultData)]}

\* the USB controller receives a vendor request, the flash requests included
UsbReceiveFlash ==
    /\ Len(usb_events) < MaxQueue
    /\ reqs < MaxReq + 1
    /\ reqs' = reqs + 1
    /\ \E ev \in FlashRequests \cup VendorInputs :
          usb_events' = Append(usb_events, ev)
    /\ UNCHANGED <<paramVars, smp_i, l_vol_mul, l_preamp, l_bypassed, used,
                   smp_pkts, flashVars>>
    /\ UNCHANGED <<stageVars, mainVars, tableVars, rateVars, staged>>
    /\ UNCHANGED <<ringVars, pushVars, core1Vars, histVars, dlyVars,
                   audioVars, loudVars>>
    /\ UNCHANGED auxVars

\* tud_task() -> tud_vendor_control_xfer_cb, REQ_SAVE_PARAMS
TudSaveParams ==
    /\ Dispatchable(loopPc)
    /\ usb_events # <<>>
    /\ Head(usb_events).req = "save"
    /\ usb_events' = Tail(usb_events)
    /\ flash_save_params
    /\ UNCHANGED <<paramVars, smp_i, l_vol_mul, l_preamp, l_bypassed, used,
                   smp_pkts>>
    /\ UNCHANGED <<channel_delays_ms, channel_delay_samples, lineVars>>
    /\ UNCHANGED <<ringVars, pushVars, core1Vars, histVars, ctlVars,
                   audioVars, loudVars>>
    /\ UNCHANGED auxVars

\* tud_task() -> tud_vendor_control_xfer_cb, REQ_LOAD_PARAMS
TudLoadParams ==
    /\ Dispatchable(loopPc)
    /\ usb_events # <<>>
    /\ Head(usb_events).req = "load"
    /\ usb_events' = Tail(usb_events)
    /\ flash_load_params
    /\ IF FlashCheck(flash_image) = FLASH_OK
         THEN /\ filters' = RecalcFilters(filter_recipes', filters,
                                          audio_state_freq)
              /\ channel_bypassed' = RecalcBypassed(filters')
              /\ channel_delay_samples' =
                    dsp_update_delay_samples(channel_delays_ms',
                                             audio_state_freq)
         ELSE UNCHANGED <<filters, channel_bypassed, channel_delay_samples>>
    /\ UNCHANGED <<vol_mul, smp_i, l_vol_mul, l_preamp, l_bypassed, used,
                   smp_pkts, saved_params>>
    /\ UNCHANGED <<stageVars, mainVars, stray_store, rateVars, staged, reqs>>
    /\ UNCHANGED <<lineVars, flash_image>>
    /\ UNCHANGED <<ringVars, pushVars, core1Vars, histVars, audioVars,
                   loudVars>>
    /\ UNCHANGED auxVars

\* tud_task() -> tud_vendor_control_xfer_cb, REQ_FACTORY_RESET
TudFactoryReset ==
    /\ Dispatchable(loopPc)
    /\ usb_events # <<>>
    /\ Head(usb_events).req = "reset"
    /\ usb_events' = Tail(usb_events)
    /\ flash_factory_reset
    /\ filters' = RecalcFilters(DefaultRecipes, DefaultFilters, audio_state_freq)
    /\ channel_bypassed' = RecalcBypassed(filters')
    /\ channel_delay_samples' =
          dsp_update_delay_samples(channel_delays_ms, audio_state_freq)
    /\ UNCHANGED <<vol_mul, smp_i, l_vol_mul, l_preamp, l_bypassed, used,
                   smp_pkts, flashVars>>
    /\ UNCHANGED <<stageVars, mainVars, stray_store, rateVars, staged, reqs>>
    /\ UNCHANGED <<channel_delays_ms, lineVars, flash_image>>
    /\ UNCHANGED <<ringVars, pushVars, core1Vars, histVars, audioVars,
                   loudVars>>
    /\ UNCHANGED auxVars

\* ------------------------------------------------------------------------
\* process_audio_packet, RP2040 build: the left sample from the USB packet
\* to the S/PDIF buffer, with flat filters and no delay
\* ------------------------------------------------------------------------
INT32_MAX == 2147483647
INT32_MIN == -2147483647 - 1
INT16_MAX == 32767

\* clip_s32(int32_t x): the argument is already a 32-bit value
clip_s32(x) ==
    IF x > INT32_MAX THEN INT32_MAX ELSE IF x < INT32_MIN THEN INT32_MIN ELSE x
\* clip_s64_to_s32(int64_t x)
clip_s64_to_s32(x) ==
    IF x > INT32_MAX THEN INT32_MAX ELSE IF x < INT32_MIN THEN INT32_MIN ELSE x
\* (int16_t)x: the low 16 bits, as a signed value
ToInt16(x) == ((x + 32768) % 65536) - 32768

\* clip_s64_to_s32(((int64_t)((int32_t)raw << 14) * preamp) >> 28), which is
\* (raw * preamp) >> 14, computed in two parts that fit 32 bits
PreampStage(raw, preamp) ==
    clip_s64_to_s32(raw * (preamp \div 16384)
                      + (raw * (preamp % 16384)) \div 16384)
\* (int32_t)(((int64_t)x * mul) >> 15) for a multiplier up to unity, in two
\* parts that fit 32 bits
MulShift15(x, mul) ==
    (x \div 32768) * mul + ((x % 32768) * mul) \div 32768
\* channel_mute[0] ? 0 : (out_l_32 * channel_gain_mul[0]) >> 15
GainStage(x, mute, gain_mul) == IF mute THEN 0 ELSE MulShift15(x, gain_mul)
\* (out_l_32 * vol_mul) >> 15, then clip_s32
VolumeStage(x, vol) == clip_s32(MulShift15(x, vol))
\* the value read from the delay line with channel_delay_samples[0] = 0
DelayedL(in) ==
    VolumeStage(GainStage(PreampStage(in.raw, in.preamp), in.mute, in.gain_mul),
                in.vol_mul)
\* out[i*2] = (int16_t)(clip_s32(delayed_l + (1<<13)) >> 14)
SpdifSample(delayed_l) == ToInt16(clip_s32(delayed_l + 8192) \div 16384)

\* 16-bit input samples, and the parameters the requests of VendorInputs,
\* GainInputs and VolumeInputs can set
ConvInputs ==
    [raw : {-32768, -16384, -1, 0, 1, 16384, 32767},
     preamp : {Q28(PowLinear(0)), Q28(PowLinear(6)), Q28(PowLinear(-20))},
     mute : BOOLEAN,
     gain_mul : {Q15(PowLinear(0)), Q15(PowLinear(-20))},
     vol_mul : {VolMul(0), VolMul(-1536)}]

NotWritten == <<>>

InitConv ==
    /\ conv_in \in ConvInputs
    /\ conv_out = NotWritten

\* one iteration of the sample loop with audio_buffer != NULL
ConvSample ==
    /\ conv_out = NotWritten
    /\ conv_out' = <<SpdifSample(DelayedL(conv_in))>>
    /\ UNCHANGED <<conv_in, paramVars, smpVars, flashVars, modVars, xipVars,
                   extraVars>>
    /\ UNCHANGED <<ringVars, pushVars, core1Vars, histVars, ctlVars, dlyVars,
                   audioVars, loudVars>>

MainEq == MainCopyWord \/ MainClearEq \/ MainStoreRecipe \/ MainIrqOff
            \/ MainCompute \/ MainIrqOn

MainRate == MainEqCheck \/ MainRateCheck \/ MainRateRead \/ MainRateClear
              \/ MainRateApply \/ MainWfe

Push == PushCall \/ PushAccept \/ PushDrop \/ PushStore
          \/ PushPublish \/ PushSev

Core1 == C1Top \/ C1Poll \/ C1WaitCheck \/ C1WaitDma \/ C1Wfe \/ C1Woke
           \/ C1Pop \/ C1PopTail \/ C1Modulate

\* ------------------------------------------------------------------------
\* pdm_core1_entry with the numbers of the modulator (pdm_generator.c:97-203)
\* ------------------------------------------------------------------------
\* samples the modulator is followed through
ModSamples == 3

\* target = pcm_val + 32768
PDM_MIDPOINT == 32768
\* a limit of the whole 17-bit range, above the feedback level
ClipAboveFullScale == 2 * PDM_MIDPOINT
PDM_CLIP_THRESH == 29500
PDM_DITHER_MASK == 511
PDM_LEAKAGE_SHIFT == 16
\* fb_val = ... ? 65535 : 0
FB_HIGH == 65535
\* for (int k = 0; k < 32; k++)
BITS_PER_WORD == 32

\* x >> n on an int32_t: the arithmetic shift rounds towards minus infinity
Asr(x, n) == x \div (2 ^ n)

\* pcm_val = sample_value >> 14, clamped to +-PDM_CLIP_THRESH
Limit(sv) ==
    LET pcm_val == Asr(sv, 14) IN
      IF pcm_val > PDM_CLIP_THRESH THEN PDM_CLIP_THRESH
      ELSE IF pcm_val < -PDM_CLIP_THRESH THEN -PDM_CLIP_THRESH
      ELSE pcm_val

\* what fast_rand() & PDM_DITHER_MASK may be: the two ends of the range
DitherBits == {0, PDM_DITHER_MASK}
\* dither = (fast_rand() & PDM_DITHER_MASK) - (PDM_DITHER_MASK >> 1)
DitherOf(bits) == bits - Asr(PDM_DITHER_MASK, 1)

\* the 32 steps of one word: the feedback and the two integrators
RECURSIVE BitLoop(_, _, _, _, _)
BitLoop(err, err2, target, dither, k) ==
    IF k = 0 THEN <<err, err2>>
    ELSE LET fb_val == IF err2 + dither >= 0 THEN FB_HIGH ELSE 0
             e1 == err + (target - fb_val)
             e2 == err2 + (e1 - fb_val)
         IN BitLoop(e1, e2, target, dither, k - 1)

\* x -= (x >> PDM_LEAKAGE_SHIFT)
Leak(x) == x - Asr(x, PDM_LEAKAGE_SHIFT)

\* a recovery that puts the write index on the read index
RecoverWriteAtRead(rd) == rd
\* (current_read_idx + TARGET_LEAD) & (PDM_DMA_BUFFER_SIZE - 1)
RecoverWrite(rd) == DmaMask(rd + TARGET_LEAD)

\* what the audio callbacks hand to pdm_push_sample: a sample at
\* +PDM_CLIP_THRESH, and a louder one of a packet marked silent
\* (usb_audio.c:1039: pdm_push_sample(delayed_sub, is_silent))
ModInputs == {[sample |-> PDM_CLIP_THRESH * 16384, reset |-> FALSE],
              [sample |-> 2 ^ 30, reset |-> TRUE]}

\* The functions defined with __not_in_flash_func, which the linker places
\* in RAM; every other function stays in .text, fetched from flash
\* (usb_audio.c:119, 941, 943, 1062)
NotInFlash == {"process_audio_packet", "usb_sof_irq", "_as_audio_packet",
               "_as_sync_packet"}
\* what Core 1 executes: the loop, the helper it shares its file with, the PRNG
Core1Functions == {"pdm_core1_entry", "pdm_push_sample", "fast_rand"}
\* an instruction of f can be fetched: from RAM always, from flash only
\* while no erase or program is running
Fetchable(f) == f \in NotInFlash \/ ~xip_busy
\* the loop and the PRNG inlined into it
Core1Fetch == Fetchable("pdm_core1_entry") /\ Fetchable("fast_rand")

\* flash_save_params up to flash_range_erase (flash_storage.c:66-101): the
\* sector is erased, XIP reads stall
SaveErase ==
    /\ ~xip_busy
    /\ xip_busy' = TRUE
    /\ flash_image' = NoImage
    /\ UNCHANGED <<channel_delays_ms, channel_delay_samples, lineVars>>
    /\ UNCHANGED <<ringVars, pushVars, core1Vars, histVars, ctlVars,
                   audioVars, loudVars>>
    /\ UNCHANGED <<paramVars, smpVars, flashVars, convVars, extraVars, modVars>>

\* flash_range_program, the read-back and the return (flash_storage.c:104-113)
SaveProgram ==
    /\ xip_busy
    /\ xip_busy' = FALSE
    /\ flash_save_params
    /\ UNCHANGED <<channel_delays_ms, channel_delay_samples, lineVars>>
    /\ UNCHANGED <<ringVars, pushVars, core1Vars, histVars, ctlVars,
                   audioVars, loudVars>>
    /\ UNCHANGED <<paramVars, smpVars, convVars, extraVars, modVars>>

\* pdm_push_sample as one step (lines 83-95)
PdmPushSample ==
    /\ pushCalls < ModSamples
    /\ pushCalls' = pushCalls + 1
    /\ \E m \in ModInputs :
         LET nh == WrapIdx(pdm_head + 1) IN
           IF nh # pdm_tail
             THEN /\ pdm_ring' = [pdm_ring EXCEPT ![pdm_head] = m]
                  /\ pdm_head' = nh
                  /\ core1_event' = TRUE
                  /\ UNCHANGED overruns
             ELSE /\ overruns' = overruns + 1
                  /\ UNCHANGED <<pdm_ring, pdm_head, core1_event>>
    /\ UNCHANGED <<pdm_tail, pdm_ring_overruns, relaxed, storeBuf, pushPc,
                   pushArg, next_head, c1pc, delta, local_pdm_write, msg,
                   sample_value, dma_read_idx, histVars>>
    /\ UNCHANGED <<ctlVars, dlyVars, audioVars>>
    /\ UNCHANGED loudVars
    /\ UNCHANGED <<paramVars, smpVars, flashVars, auxVars>>

\* lines 110-121: observe the DMA read index; underrun recovery
ModTop ==
    /\ c1pc = "top"
    /\ Core1Fetch
    /\ mod_samples < ModSamples
    /\ LET d == Lead(local_pdm_write, dma_read_idx) IN
         IF IsUnderrun(d)
           THEN /\ local_pdm_err' = 0
                /\ local_pdm_err2' = 0
                /\ local_pdm_write' = RecoverWrite(dma_read_idx)
                /\ delta' = TARGET_LEAD
           ELSE /\ delta' = d
                /\ UNCHANGED <<local_pdm_write, local_pdm_err, local_pdm_err2>>
    /\ c1pc' = "take"
    /\ UNCHANGED <<ringVars, pushVars, msg, sample_value, core1_event,
                   dma_read_idx, histVars>>
    /\ UNCHANGED <<ctlVars, dlyVars, audioVars>>
    /\ UNCHANGED loudVars
    /\ UNCHANGED <<paramVars, smpVars, flashVars, convVars, extraVars, xipVars, chunk,
                   mod_samples, held>>

\* lines 123-158: pop a message, or synthesize silence below the target lead,
\* or stay in the wait loop until a message arrives or the lead has left
\* the cushion
ModTake ==
    /\ c1pc = "take"
    /\ Core1Fetch
    /\ LET d == Lead(local_pdm_write, dma_read_idx) IN
         IF pdm_head # pdm_tail
           THEN /\ msg' = pdm_ring[pdm_tail]
                /\ pdm_tail' = WrapIdx(pdm_tail + 1)
                /\ sample_value' = msg'.sample
                /\ UNCHANGED delta
           ELSE /\ \/ delta < TARGET_LEAD /\ UNCHANGED delta
                   \/ /\ delta >= TARGET_LEAD
                      /\ d < TARGET_LEAD \/ IsUnderrun(d)
                      /\ delta' = d
                /\ sample_value' = 0
                /\ UNCHANGED <<msg, pdm_tail>>
    /\ held' = (held /\ Limit(sample_value') = PDM_CLIP_THRESH)
    /\ chunk' = 0
    /\ c1pc' = "chunks"
    /\ UNCHANGED <<pdm_ring, pdm_head, overruns, pdm_ring_overruns, relaxed,
                   storeBuf, pushVars, local_pdm_write, core1_event,
                   dma_read_idx, histVars>>
    /\ UNCHANGED <<ctlVars, dlyVars, audioVars>>
    /\ UNCHANGED loudVars
    /\ UNCHANGED <<paramVars, smpVars, flashVars, convVars, extraVars, xipVars,
                   local_pdm_err, local_pdm_err2, mod_samples>>

\* lines 160-185: the limiter and one chunk of the oversampling loop: one
\* dither value, 32 steps, one word stored at pdm_dma_buffer[local_pdm_write]
ModChunk ==
    /\ c1pc = "chunks"
    /\ Core1Fetch
    /\ chunk < PDM_CHUNKS
    /\ \E bits \in DitherBits :
         LET target == Limit(sample_value) + PDM_MIDPOINT
             e == BitLoop(local_pdm_err, local_pdm_err2, target,
                          DitherOf(bits), BITS_PER_WORD)
         IN /\ local_pdm_err' = e[1]
            /\ local_pdm_err2' = e[2]
    /\ local_pdm_write' = DmaMask(local_pdm_write + 1)
    /\ chunk' = chunk + 1
    /\ UNCHANGED <<ringVars, pushVars, c1pc, delta, msg, sample_value,
                   core1_event, dma_read_idx, histVars>>
    /\ UNCHANGED <<ctlVars, dlyVars, audioVars>>
    /\ UNCHANGED loudVars
    /\ UNCHANGED <<paramVars, smpVars, flashVars, convVars, extraVars, xipVars,
                   mod_samples, held>>

\* lines 187-190: the leak of both integrators, once per sample; the locals
\* of the iteration are dead at its end
ModLeak ==
    /\ c1pc = "chunks"
    /\ Core1Fetch
    /\ chunk = PDM_CHUNKS
    /\ local_pdm_err' = Leak(local_pdm_err)
    /\ local_pdm_err2' = Leak(local_pdm_err2)
    /\ mod_samples' = mod_samples + 1
    /\ chunk' = 0
    /\ delta' = 0
    /\ sample_value' = 0
    /\ msg' = NoMsg
    /\ c1pc' = "top"
    /\ UNCHANGED <<ringVars, pushVars, local_pdm_write, core1_event,
                   dma_read_idx, histVars>>
    /\ UNCHANGED <<ctlVars, dlyVars, audioVars>>
    /\ UNCHANGED loudVars
    /\ UNCHANGED <<paramVars, smpVars, flashVars, convVars, extraVars, xipVars, held>>

\* ------------------------------------------------------------------------
\* The feedback value as a function of the drift: update_audio_feedback
\* (usb_audio.c:570-600) and _as_sync_packet (usb_audio.c:1062-1091)
\* ------------------------------------------------------------------------
\* signed division of C: the quotient is truncated towards zero
CDiv(a, b) == IF a >= 0 THEN a \div b ELSE -((-a) \div b)

\* a * c in int32_t arithmetic when the product is reduced modulo 2^32
\* (0 <= c < 2^15), computed on 16-bit halves
MulWrap32(a, c) ==
    LET lo == a % 65536
        hi == (a \div 65536) % 65536
        l2 == (lo * c) % 65536
        carry == (lo * c) \div 65536
        h2 == (hi * c + carry) % 65536
    IN IF h2 >= 32768 THEN (h2 - 65536) * 65536 + l2 ELSE h2 * 65536 + l2

\* if (correction > cap) correction = cap; if (correction < -cap) ...
Clamp(x, cap) == IF x > cap THEN cap ELSE IF x < -cap THEN -cap ELSE x

\* ((uint64_t)audio_state.freq << 14) / 1000
Nominal1014(freq) == (freq * 16384) \div 1000

\* update_audio_feedback: (int32_t)((drift * 16) / 10) with drift an
\* int64_t: the quotient is exact in 64 bits and the cast keeps its low 32
\* bits.  With drift = +-(10 q + r): (drift * 16) / 10 = +-(16 q + (16 r) / 10).
TudCorrection(drift) ==
    LET mag == Abs(drift)
        q == mag \div 10
        s == (16 * (mag % 10)) \div 10
        y32 == IF q >= 2 ^ 27 THEN 16 * (q - 2 ^ 28) + s ELSE 16 * q + s
    IN Clamp(IF drift >= 0 THEN y32 ELSE -y32, 8192)

\* _as_sync_packet: int32_t correction = (drift * 50) / 1000.  The product
\* is an int32_t; when it overflows the behaviour is undefined, and the
\* build either lets the product wrap or has folded the expression into
\* drift / 20.
SyncCorrections(drift) ==
    LET folded == Clamp(CDiv(drift, 20), 500)
        wrapped == Clamp(CDiv(MulWrap32(drift, 50), 1000), 500)
    IN IF Abs(drift) <= INT32_MAX \div 50 THEN {wrapped}
       ELSE {wrapped, folded}

\* drifts: none, one sample, both sides of each cap, a stream paused for a
\* quarter of an hour and for eight hours at 48 kHz, a host that oversends
FbDrifts == {0, 1, -1, 5120, 5121, -5121, 10000, 10020, -10020,
             -42949672, -43200000, 43200000, -1400000000, 1400000000}
FbRates == {44100, 48000, 96000}
FbInputs == [path : {"tud", "sync"}, freq : FbRates, drift : FbDrifts]

\* the value is computed for one input
InitFb ==
    /\ fb_in \in FbInputs
    /\ fb_out = NotWritten

\* no feedback value is followed
NoFb ==
    /\ fb_in = [path |-> "tud", freq |-> 48000, drift |-> 0]
    /\ fb_out = NotWritten

\* the branch of both functions taken once sync_started holds and more than
\* one second of samples was produced: feedback = nominal - correction
FbCompute ==
    /\ fb_out = NotWritten
    /\ \E correction \in IF fb_in.path = "tud"
                           THEN {TudCorrection(fb_in.drift)}
                           ELSE SyncCorrections(fb_in.drift) :
          fb_out' = <<Nominal1014(fb_in.freq) - correction>>
    /\ UNCHANGED fb_in
    /\ UNCHANGED <<ringVars, pushVars, core1Vars, histVars, ctlVars, dlyVars,
                   audioVars, loudVars>>
    /\ UNCHANGED <<paramVars, smpVars, flashVars, convVars, modVars, xipVars,
                   spdVars>>

\* ---------------------------------------------------------------------------
\* The multi-instance S/PDIF driver (pico_audio_spdif_multi/audio_spdif.c)
\* ---------------------------------------------------------------------------

\* instances registered, of PICO_AUDIO_SPDIF_MAX_INSTANCES
SpdifInstances == 2
\* buffers of one instance's consumer pool
SpdifBuffers == 1
\* audio_spdif_enable_sync calls explored
MaxSyncCalls == 2
\* pio_program_offset[3]: the PIO blocks of the chip
PioBlocks == 3
\* DMA_IRQ_0 and DMA_IRQ_1
DmaIrqLines == 2
\* an age at least the number of control-register writes of one call
MaxAge == PioBlocks

Instances == 0..(SpdifInstances - 1)
NoBuffer == 0
Buffers == 1..SpdifBuffers
Stopped == -1

SetMin(S) == CHOOSE x \in S : \A y \in S : x <= y

\* audio_start_dma_transfer: the buffer taken (or none: silence is played)
TakeBuffer(pool) == IF pool.full = {} THEN NoBuffer ELSE SetMin(pool.full)

\* audio_start_dma_transfer on one instance: playing_buffer is replaced by
\* the buffer taken, whatever it held, and the channel is triggered
StartInst(inst, pool) == [inst EXCEPT !.playing_buffer = TakeBuffer(pool)]
StartPool(pool) == [pool EXCEPT !.full = pool.full \ {TakeBuffer(pool)}]

\* one write to a PIO control register: the state machines already running
\* have shifted for one more step, those of `starting` begin now
CtrlWrite(age, starting) ==
    [i \in Instances |->
        IF age[i] # Stopped
        THEN IF age[i] < MaxAge THEN age[i] + 1 ELSE MaxAge
        ELSE IF i \in starting THEN 0 ELSE Stopped]

\* pio_enable_sm_mask_in_sync once per PIO block that has a state machine of
\* the group, blocks in ascending order
RECURSIVE SyncBlocks(_, _, _)
SyncBlocks(age, group, blk) ==
    IF blk = PioBlocks THEN age
    ELSE LET mask == {i \in group : spdif_instances[i].pio = blk}
         IN SyncBlocks(IF mask = {} THEN age ELSE CtrlWrite(age, mask),
                       group, blk + 1)

\* irq_enable_count after the first loop of audio_spdif_enable_sync
SyncCount(group) ==
    [q \in 0..(DmaIrqLines - 1) |->
        irq_enable_count[q]
            + Cardinality({i \in group : spdif_instances[i].dma_irq = q})]

InstanceConfigs ==
    [pio : 0..(PioBlocks - 1), dma_irq : 0..(DmaIrqLines - 1),
     enabled : {FALSE}, playing_buffer : {NoBuffer}]

SpdifIdle ==
    /\ irq_enable_count = [q \in 0..(DmaIrqLines - 1) |-> 0]
    /\ irq_line_enabled = [q \in 0..(DmaIrqLines - 1) |-> FALSE]
    /\ sm_age = [i \in Instances |-> Stopped]
    /\ dma_busy = [i \in Instances |-> FALSE]
    /\ dma_status = [i \in Instances |-> FALSE]
    /\ consumer_pool = [i \in Instances |-> [free |-> Buffers, full |-> {}]]
    /\ sync_calls = 0
    /\ sync_instances = {}

\* after audio_spdif_setup and audio_spdif_connect of every instance; the
\* first instance is on PIO block 0 and DMA_IRQ_0, the others anywhere
InitSpdif ==
    /\ spdif_instances \in [Instances -> InstanceConfigs]
    /\ spdif_instances[0].pio = 0
    /\ spdif_instances[0].dma_irq = 0
    /\ SpdifIdle

NoSpdif ==
    /\ spdif_instances = [i \in Instances |->
                            [pio |-> 0, dma_irq |-> 0, enabled |-> FALSE,
                             playing_buffer |-> NoBuffer]]
    /\ SpdifIdle

\* audio_spdif_set_enabled(inst, enabled)
SpdifSetEnabled(i, en) ==
    LET inst == spdif_instances[i]
        q == inst.dma_irq
    IN /\ en # inst.enabled
       /\ IF en
          THEN /\ irq_enable_count' =
                    [irq_enable_count EXCEPT ![q] = (@ + 1) % 256]
               /\ irq_line_enabled' =
                    IF irq_enable_count[q] = 0
                    THEN [irq_line_enabled EXCEPT ![q] = TRUE]
                    ELSE irq_line_enabled
               /\ spdif_instances' =
                    [spdif_instances EXCEPT
                        ![i] = [StartInst(inst, consumer_pool[i])
                                   EXCEPT !.enabled = TRUE]]
               /\ consumer_pool' =
                    [consumer_pool EXCEPT ![i] = StartPool(@)]
               /\ dma_busy' = [dma_busy EXCEPT ![i] = TRUE]
               /\ sm_age' = CtrlWrite(sm_age, {i})
          ELSE /\ sm_age' = [CtrlWrite(sm_age, {}) EXCEPT ![i] = Stopped]
               /\ irq_enable_count' =
                    [irq_enable_count EXCEPT ![q] = (@ + 255) % 256]
               /\ irq_line_enabled' =
                    IF (irq_enable_count[q] + 255) % 256 = 0
                    THEN [irq_line_enabled EXCEPT ![q] = FALSE]
                    ELSE irq_line_enabled
               /\ spdif_instances' =
                    [spdif_instances EXCEPT ![i].enabled = FALSE]
               /\ UNCHANGED <<consumer_pool, dma_busy>>
       /\ UNCHANGED <<dma_status, sync_calls, sync_instances>>

\* audio_spdif_enable_sync(instances, count)
SpdifEnableSync(group) ==
    /\ sync_calls < MaxSyncCalls
    /\ sync_calls' = sync_calls + 1
    /\ sync_instances' = group
    /\ irq_enable_count' = SyncCount(group)
    /\ irq_line_enabled' =
         [q \in 0..(DmaIrqLines - 1) |->
            irq_line_enabled[q]
                \/ (irq_enable_count[q] = 0 /\ SyncCount(group)[q] # 0)]
    /\ spdif_instances' =
         [i \in Instances |->
            IF i \in group
            THEN [StartInst(spdif_instances[i], consumer_pool[i])
                     EXCEPT !.enabled = TRUE]
            ELSE spdif_instances[i]]
    /\ consumer_pool' =
         [i \in Instances |->
            IF i \in group THEN StartPool(consumer_pool[i])
            ELSE consumer_pool[i]]
    /\ dma_busy' = [i \in Instances |-> dma_busy[i] \/ i \in group]
    /\ sm_age' = SyncBlocks(sm_age, group, 0)
    /\ UNCHANGED dma_status

\* the channel has moved its last word to the state machine's FIFO
SpdifDmaComplete(i) ==
    /\ dma_busy[i]
    /\ sm_age[i] # Stopped
    /\ dma_busy' = [dma_busy EXCEPT ![i] = FALSE]
    /\ dma_status' = [dma_status EXCEPT ![i] = TRUE]
    /\ UNCHANGED <<spdif_instances, irq_enable_count, irq_line_enabled,
                   sm_age, consumer_pool, sync_calls, sync_instances>>

\* audio_spdif_dma_irq_handler: every instance whose channel has raised its
\* line gives its buffer back and starts the next transfer
SpdifDmaIrq ==
    LET returned(i) ==
            [consumer_pool[i] EXCEPT
                !.free = @ \cup ({spdif_instances[i].playing_buffer}
                                    \ {NoBuffer})]
    IN /\ \E i \in Instances :
            dma_status[i] /\ irq_line_enabled[spdif_instances[i].dma_irq]
       /\ spdif_instances' =
            [i \in Instances |->
                IF dma_status[i]
                THEN StartInst(spdif_instances[i], returned(i))
                ELSE spdif_instances[i]]
       /\ consumer_pool' =
            [i \in Instances |->
                IF dma_status[i] THEN StartPool(returned(i))
                ELSE consumer_pool[i]]
       /\ dma_busy' = [i \in Instances |-> dma_busy[i] \/ dma_status[i]]
       /\ dma_status' = [i \in Instances |-> FALSE]
       /\ UNCHANGED <<irq_enable_count, irq_line_enabled, sm_age,
                      sync_calls, sync_instances>>

\* the producer's give: a free consumer buffer is encoded and queued
SpdifProducerGive(i) ==
    /\ consumer_pool[i].free # {}
    /\ consumer_pool' =
         [consumer_pool EXCEPT
            ![i] = [free |-> @.free \ {SetMin(@.free)},
                    full |-> @.full \cup {SetMin(@.free)}]]
    /\ UNCHANGED <<spdif_instances, irq_enable_count, irq_line_enabled,
                   sm_age, dma_busy, dma_status, sync_calls, sync_instances>>

\* one sample, silent and at unity, stands where no sample is followed
NoConv ==
    /\ conv_in = [raw |-> 0, preamp |-> Q28(PowLinear(0)), mute |-> FALSE,
                  gain_mul |-> Q15(PowLinear(0)), vol_mul |-> VolMul(0)]
    /\ conv_out = NotWritten

Init == InitPdm /\ relaxed = FALSE /\ InitCtl /\ InitDly /\ InitAudio
          /\ InitLoud /\ InitDsp /\ flash_image = NoImage /\ NoConv /\ NoFb
          /\ NoSpdif

Next == Push \/ Core1 \/ DmaTick

Spec == Init /\ [][Next]_vars

\* The same program when Core 0 stores may become visible out of order
InitRelaxed == InitPdm /\ relaxed = TRUE /\ InitCtl /\ InitDly /\ InitAudio
                 /\ InitLoud /\ InitDsp /\ flash_image = NoImage /\ NoConv /\ NoFb
          /\ NoSpdif
NextRelaxed == Next \/ Drain
SpecRelaxed == InitRelaxed /\ [][NextRelaxed]_vars

\* The control plane: the main loop against EQ and rate requests
NextCtl == MainEq \/ MainRate \/ UsbSetEqParam \/ UsbSetRate
SpecCtl == Init /\ [][NextCtl]_vars

\* The delay settings: delay requests, rate changes, stored parameters
NextDelay == MainRate \/ UsbSetRate \/ UsbSetDelay \/ UsbSaveParams
               \/ UsbLoadParams \/ UsbFactoryReset
SpecDelay == Init /\ [][NextDelay]_vars

\* The sample rate alone: rate requests against the main loop
NextRate == MainRate \/ UsbSetRate
SpecRate == Init /\ [][NextRate]_vars

\* The audio path of the TinyUSB build: packets, rate requests, feedback
\* and the S/PDIF DMA
NextAudio == TudIdle \/ TudSetRate \/ PktTake \/ PktPrefill \/ PktBody
               \/ PktGive \/ UpdateFeedback \/ LoopEq \/ LoopRate \/ DmaIrq
SpecAudio == Init /\ [][NextAudio]_vars

\* The parameters of the TinyUSB build: requests and packets arriving while
\* the main loop dispatches events, updates feedback, and applies EQ and
\* rate changes
NextPkt == UsbReceive \/ TudIdle \/ TudVendorSet \/ SmpStart \/ SmpStep
             \/ UpdateFeedback \/ LoopEq \/ LoopRate
SpecPkt == Init /\ [][NextPkt]_vars

\* The stored parameters of the TinyUSB build: save, load and factory reset
\* among the parameter requests, from every rejected record at boot
InitFlash == InitPdm /\ relaxed = FALSE /\ InitCtl /\ InitDly /\ InitAudio
               /\ InitLoud /\ InitDsp /\ flash_image \in BootImages
               /\ NoConv /\ NoFb /\ NoSpdif
NextFlash == UsbReceiveFlash \/ TudIdle \/ TudVendorSet \/ TudSaveParams
               \/ TudLoadParams \/ TudFactoryReset \/ UpdateFeedback
               \/ LoopEq \/ LoopRate
SpecFlash == InitFlash /\ [][NextFlash]_vars

\* The output stages of one sample, for every input of ConvInputs
InitOut == InitPdm /\ relaxed = FALSE /\ InitCtl /\ InitDly /\ InitAudio
             /\ InitLoud /\ InitDsp /\ flash_image = NoImage /\ InitConv
             /\ NoFb /\ NoSpdif
NextOut == ConvSample
SpecOut == InitOut /\ [][NextOut]_vars

\* The modulator with its numbers: pushes, the DMA read index, the loop
NextMod == PdmPushSample \/ DmaTick \/ ModTop \/ ModTake \/ ModChunk
             \/ ModLeak
SpecMod == Init /\ [][NextMod]_vars

\* The modulator on silence while parameters are saved
NextXip == DmaTick \/ ModTop \/ ModTake \/ ModChunk \/ ModLeak
             \/ SaveErase \/ SaveProgram
SpecXip == Init /\ [][NextXip]_vars

\* The feedback value, for every input of FbInputs
InitFeedback == InitPdm /\ relaxed = FALSE /\ InitCtl /\ InitDly /\ InitAudio
                  /\ InitLoud /\ InitDsp /\ flash_image = NoImage /\ NoConv
                  /\ InitFb /\ NoSpdif
NextFb == FbCompute
SpecFb == InitFeedback /\ [][NextFb]_vars

\* the S/PDIF driver alone: every call sequence on every instance layout
SetEnabledCall ==
    /\ \E i \in Instances, en \in BOOLEAN : SpdifSetEnabled(i, en)
    /\ UNCHANGED nonSpdVars
EnableSyncCall ==
    /\ \E group \in (SUBSET Instances) \ {{}} : SpdifEnableSync(group)
    /\ UNCHANGED nonSpdVars
DmaCompleteStep ==
    /\ \E i \in Instances : SpdifDmaComplete(i)
    /\ UNCHANGED nonSpdVars
DmaIrqStep ==
    /\ SpdifDmaIrq
    /\ UNCHANGED nonSpdVars
ProducerGiveCall ==
    /\ \E i \in Instances : SpdifProducerGive(i)
    /\ UNCHANGED nonSpdVars
InitDriver == InitPdm /\ relaxed = FALSE /\ InitCtl /\ InitDly /\ InitAudio
              /\ InitLoud /\ InitDsp /\ flash_image = NoImage /\ NoConv
              /\ NoFb /\ InitSpdif
NextSpdif == SetEnabledCall \/ EnableSyncCall \/ DmaCompleteStep \/ DmaIrqStep
             \/ ProducerGiveCall
SpecSpdif == InitDriver /\ [][NextSpdif]_vars

\* The loudness tables: recomputations against the audio loop's reads
NextLoud == LoudCall \/ LoudFill \/ LoudSwapBuf \/ LoudSwapPtr \/ LoudRead
SpecLoud == Init /\ [][NextLoud]_vars

\* The delay lines: audio samples against delay requests
NextLine == DelayStage \/ UsbSetDelay
SpecLine == Init /\ [][NextLine]_vars

\* The mute flags: audio samples against mute and delay requests
NextMute == DelayStage \/ UsbSetDelay \/ UsbSetChannelMute
SpecMute == Init /\ [][NextMute]_vars

\* ------------------------------------------------------------------------
\* PCM->PDM ring: properties
\* ------------------------------------------------------------------------
IsPrefix(s, t) == Len(s) <= Len(t) /\ \A i \in 1..Len(s) : s[i] = t[i]

\* tail increments completed so far (the message being popped is recorded in
\* consumed one step before pdm_tail advances)
Popped == Len(consumed) - (IF c1pc = "pop_t" THEN 1 ELSE 0)

C2_HeadImpliesPayload ==
    (pdm_head # pdm_tail) =>
        /\ Popped < Len(accepted)
        /\ pdm_ring[pdm_tail] = accepted[Popped + 1]

\* C3: a call on a full ring drops the sample, leaves ring, head and tail
\* unchanged, and adds one to the ring-overrun counter that REQ_GET_STATUS
\* reports (pdm_ring_overruns).
C3_DropCountsRingOverrun ==
    [][(pushPc = "check" /\ pushPc' = "idle") =>
          /\ pdm_ring_overruns' = pdm_ring_overruns + 1
          /\ UNCHANGED <<pdm_ring, pdm_head, pdm_tail>>]_vars

\* C4: the wait on an empty queue is bounded: whenever the queue is empty and
\* the DMA lead is below TARGET_LEAD, Core 1 is able to run (and goes on to
\* synthesize a zero sample) without any push or wake signal.
C4_EmptyWaitBounded ==
    (pdm_head = pdm_tail /\ Lead(local_pdm_write, dma_read_idx) < TARGET_LEAD)
        => ENABLED Core1

\* ------------------------------------------------------------------------
\* Control plane: properties
\* ------------------------------------------------------------------------
\* channel < NUM_CHANNELS and 0 <= band < channel_band_counts[channel]
InRange(pk) ==
    /\ pk[1].channel < NUM_CHANNELS
    /\ pk[1].band >= 0
    /\ pk[1].band < channel_band_counts[pk[1].channel + 1]

\* C5: for every EQ update the coefficient computation runs with interrupts
\* enabled; interrupts are suspended only for the copy of the finished
\* coefficients into the active slot.
C5_ComputeWithIrqEnabled ==
    (mainPc = "compute") => irq_enabled

\* C6: no staged update is lost: once the requests have stopped and the main
\* loop is at rest, the recipe table holds the last staged EQ packet in its
\* slot and the active sample rate is the last staged rate (coerced to a
\* supported one).
C6_StagedUpdateApplied ==
    (mainPc = "wfe" /\ ~main_event) =>
        /\ (staged # {} /\ InRange(pending_packet)) =>
               filter_recipes[Slot(pending_packet)] = pending_packet
        /\ active_rate = CoerceRate(pending_rate)

\* C7: the packet the main loop has copied out of the staging slot is the
\* complete payload of one SET_EQ_PARAM request, never a mix of two.
C7_CopyIsOneRequest ==
    (mainPc = "clear_eq") => p \in staged

\* C8: every (channel, band) with which the main loop writes the recipe
\* table and the biquad table is in range.
C8_WritesInRange ==
    (mainPc \in {"store", "compute"}) => InRange(p)

\* ------------------------------------------------------------------------
\* Delay: properties
\* ------------------------------------------------------------------------
\* C9: after any sequence of SET_DELAY requests, rate changes, loads and
\* factory resets every channel_delay_samples[i] is at most
\* MAX_DELAY_SAMPLES - 1.
C9_DelayBelowLineLength ==
    \A i \in 0..2 : channel_delay_samples[i] <= MAX_DELAY_SAMPLES - 1

\* C10: for every offset d with 0 <= d < MAX_DELAY_SAMPLES the value read
\* for a channel is the sample written d samples earlier (d = 0: the sample
\* just written; before d samples exist: the cleared line), also when the
\* write index has wrapped.
C10_DelayReadBack ==
    (sampleNo > 0) =>
        \A c \in 0..2 :
            (delayed[c].d < MAX_DELAY_SAMPLES) =>
                delayed[c].v = IF sampleNo - delayed[c].d >= 1
                                 THEN SampleIn(c, sampleNo - delayed[c].d)
                                 ELSE 0

\* C10 witness: the write index has wrapped and the left output is read at
\* the largest offset, from behind the wrap, while the sub is read one back.
C10_Witness ==
    /\ sampleNo = MAX_DELAY_SAMPLES + 2
    /\ delayed[0].d = MAX_DELAY_SAMPLES - 1
    /\ delayed[0].v = SampleIn(0, 3)
    /\ delayed[1].d = 0
    /\ delayed[1].v = SampleIn(1, sampleNo)
    /\ delayed[2].d = SUB_ALIGN_SAMPLES

\* ------------------------------------------------------------------------
\* Sample rate: properties
\* ------------------------------------------------------------------------
\* C11: a request for a rate outside {44100, 48000, 96000} is coerced to
\* 44.1 kHz: once it has been applied and the main loop is at rest, the rate
\* the filters, delays and clocks were set for (active_rate) and the rate
\* read by every later rate-dependent computation (audio_state.freq: the
\* feedback nominal value, the coefficients of an EQ update, the delay
\* counts of a SET_DELAY) are both 44100.
C11_UnsupportedRateCoerced ==
    (/\ mainPc = "wfe"
     /\ ~main_event
     /\ ~rate_change_pending
     /\ CoerceRate(pending_rate) # pending_rate)
        => (active_rate = 44100 /\ audio_state_freq = 44100)

\* ------------------------------------------------------------------------
\* Biquad table: properties
\* ------------------------------------------------------------------------
\* C14: at all times after initialization and for every biquad slot, the
\* bypass flag is set if and only if the coefficients equal the identity
\* filter.
C14_BypassIffIdentity ==
    \A i \in 0..(TableSlots - 1) :
        filters[i].bypass <=> (filters[i].coef = IdentityCoef)

C12_ClocksLocked ==
    (loopPc \in {"pkt_prefill", "pkt_body", "pkt_give"} /\ Len(rate_log) >= 2)
        => /\ pdm_clkdiv = PdmClkDiv(SysClockHz(clock_176mhz), active_rate)
           /\ inst_freq = active_rate
           /\ spdif_divider = SpdifDivider(SysClockHz(clock_176mhz), active_rate)


\* C15: when a DMA transfer completes and no buffer is queued, a block of
\* silence is transmitted and an underrun counter that the status read-back
\* reports is incremented.
C15_SilenceCountedInStatus ==
    [][(Len(started') = Len(started) + 1 /\ pool_queue = <<>>)
          => /\ started'[Len(started')] = SilenceBuf
             /\ \E wValue \in {3, 7, 8} : GetStatus(wValue)' > GetStatus(wValue)]_vars


\* the packet being processed, as it was on arrival
LastPkt == pkt_log[Len(pkt_log)]
\* the packet being processed is not the first and came more than 50 ms
\* after the previous one
AfterGap == Len(pkt_log) >= 2 /\ LastPkt.dt > AUDIO_GAP_THRESHOLD_US

\* C19: when a packet arrives more than 50 ms after the previous packet, the
\* drift state is reset at that packet: once its samples are counted the
\* sample counter holds that packet's samples only and the epoch is that
\* packet's arrival time.
C19_GapResetsDrift ==
    (loopPc = "pkt_give" /\ AfterGap)
        => /\ sync_started
           /\ start_time_us = now
           /\ total_samples_produced = sample_count
           /\ epoch_pkts = 1

\* a packet after a gap, arriving while drift tracking was running with
\* samples already counted, has been counted
C19_Witness ==
    /\ loopPc = "pkt_give"
    /\ AfterGap
    /\ LastPkt.sync
    /\ pkt_log[Len(pkt_log) - 1].sync
    /\ total_samples_produced = sample_count
    /\ start_time_us = now


\* C20: when a packet arrives more than 50 ms after the previous packet, two
\* silent buffers are queued to the S/PDIF pool ahead of that packet's audio
\* (stated for a packet that finds at least three free buffers, so that a
\* buffer is at hand for each of the three).
C20_GapPrefill ==
    (loopPc = "pkt_give" /\ AfterGap /\ LastPkt.free >= 3)
        => /\ Len(given) = LastPkt.given + 2
           /\ given[Len(given)].silent
           /\ given[Len(given) - 1].silent


RECURSIVE SamplesIn(_)
\* stereo samples received in the first k packets
SamplesIn(k) == IF k = 0 THEN 0 ELSE SamplesIn(k - 1) + pkt_log[k].n
\* packets that found no free S/PDIF buffer, and packets that found one
PktsWithoutBuffer == {k \in 1..Len(pkt_log) : pkt_log[k].free = 0}
PktsWithBuffer == {k \in 1..Len(pkt_log) : pkt_log[k].free > 0}

StartedFromPool == SelectSeq(started, LAMBDA b : b # SilenceBuf)

C18_NominalUntilStable ==
    [][(loopPc = "feedback" /\ loopPc' = "eq"
          /\ fb' \notin {Nominal(audio_state_freq), Nominal(active_rate)})
        => epoch_pkts >= FramesPerSecond]_vars


\* every entry of table t was computed by one and the same call
CompleteTable(t) ==
    \E in \in LoudnessInputs :
        \A v \in 0..(LOUDNESS_VOL_STEPS - 1) : t[v] = LoudEntry(LoudArgs(in), v)

\* C21: the active table selection is written by a single store, after the
\* inactive table has been filled completely: the table it selects, the
\* table active_buf names once a call has finished, and every table a
\* reader has taken through the selection are complete.
C21_ActiveTableComplete ==
    /\ loudness_active_table # NoTable
          => CompleteTable(loudness_tables[loudness_active_table])
    /\ (loudness_active_table # NoTable /\ loudPc \in {"idle", "swap_ptr"})
          => CompleteTable(loudness_tables[active_buf])
    /\ loud_seen # NoneSeen => CompleteTable(loud_seen[1])

\* a reader has taken the active table while the third call is part-way
\* through overwriting the other table, which held a complete table before
C21_Witness ==
    /\ loudPc = "fill"
    /\ loud_calls = MaxRecompute
    /\ vol_idx > 0
    /\ loud_seen = <<loudness_tables[loudness_active_table]>>
    /\ ~CompleteTable(loudness_tables[write_buf])
    /\ \A v \in 0..(LOUDNESS_VOL_STEPS - 1) :
          loudness_tables[write_buf][v] # ZeroEntry


\* C22: parameter updates take effect at packet boundaries: all samples of
\* one packet are processed with the same values of every parameter (biquad
\* coefficients, delay sample counts, per-channel gain and mute, preamp,
\* volume, bypass), whenever an update is requested or committed.
C22_OneParameterSetPerPacket == Cardinality(used) <= 1

\* a mute request is waiting for tud_task() while a packet is between its
\* first and its last sample
C22_Witness ==
    /\ loopPc = "sample"
    /\ smp_i = 1
    /\ used # {}
    /\ usb_events # <<>>
    /\ Head(usb_events).req = "mute"


\* a load request is dispatched
LoadStep ==
    /\ usb_events # <<>>
    /\ Head(usb_events).req = "load"
    /\ usb_events' = Tail(usb_events)

\* C23: a load that follows a save, with any parameter changes in between,
\* returns FLASH_OK and leaves the parameter state (filter recipes, preamp,
\* bypass, per-channel delays, gains, mutes, loudness settings) identical to
\* the state at the save.
C23_SaveLoadRestores ==
    [][(LoadStep /\ saved_params # NoneSaved)
        => (flash_result' = FLASH_OK /\ ParamState' = saved_params)]_vars

\* the stored fields alone do come back as they were saved
C23_StoredFieldsRestored ==
    [][(LoadStep /\ saved_params # NoneSaved)
        => (flash_result' = FLASH_OK /\ FlashData' = saved_params.data)]_vars

\* C24: when the stored record fails the magic, version or CRC check, a load
\* leaves the in-RAM parameter state equal to the factory defaults, whatever
\* it was before.
C24_RejectedLoadGivesDefaults ==
    [][(LoadStep /\ FlashCheck(flash_image) # FLASH_OK)
        => ParamState' = DefaultParams]_vars


\* the S/PDIF sample of the largest 16-bit value at unity gain
FullScale == INT16_MAX * 16384

\* C25: the output conversion saturates: a left or right value at or above
\* positive full scale is written to the S/PDIF buffer as exactly INT16_MAX,
\* never wrapped to a negative sample, for every value the preceding stages
\* can produce.
C25_OutputSaturates ==
    (conv_out # NotWritten /\ DelayedL(conv_in) >= FullScale)
        => conv_out[1] = INT16_MAX


\* what process_audio_packet hands on for output c in one iteration: the
\* S/PDIF sample of the left and right values, the value pushed for the sub
Emitted(c) == IF c = 2 THEN delayed[c].v ELSE SpdifSample(delayed[c].v)

\* C29: while the mute flag of an output channel is set, every sample that
\* channel emits (the S/PDIF left or right sample, the sub sample pushed to
\* the PDM queue) is zero.
C29_MutedEmitsZero ==
    [][\A c \in 0..2 :
          (sampleNo' = sampleNo + 1 /\ channel_mute[c]) => Emitted(c)' = 0]_vars


C27_ModulatorInRam ==
    xip_busy => \A f \in Core1Functions : Fetchable(f)

\* C28: when the consumer pops a message whose reset flag is set, it zeroes
\* both integrators and takes silence for that sample instead of the sample
\* the message carries.
C28_ResetZeroesIntegrators ==
    [][(c1pc = "take" /\ c1pc' = "chunks" /\ pdm_head # pdm_tail
          /\ pdm_ring[pdm_tail].reset)
        => (sample_value' = 0 /\ local_pdm_err' = 0 /\ local_pdm_err2' = 0)]_vars

\* C30: at the start of a modulator iteration, if the lead
\* (write_index - read_index) & MASK exceeds BUFFER/2, both integrators are
\* zeroed and write_index becomes (read_index + TARGET_LEAD) & MASK, before
\* any word of that iteration is written.
C30_UnderrunRecovery ==
    [][(c1pc = "top" /\ c1pc' # "top"
          /\ IsUnderrun(Lead(local_pdm_write, dma_read_idx)))
        => (/\ local_pdm_err' = 0
            /\ local_pdm_err2' = 0
            /\ local_pdm_write' = DmaMask(dma_read_idx + TARGET_LEAD)
            /\ c1pc' = "take"
            /\ chunk' = 0)]_vars

\* the recovery has run after samples were modulated: the integrators are
\* zero again and the write index leads the read index by TARGET_LEAD
C30_Witness ==
    /\ c1pc = "take"
    /\ mod_samples > 0
    /\ chunk = 0
    /\ local_pdm_err = 0
    /\ local_pdm_err2 = 0
    /\ delta = TARGET_LEAD
    /\ local_pdm_write = DmaMask(dma_read_idx + TARGET_LEAD)

\* Core 1 is suspended: it has executed __wfe() and no event is latched
Suspended == c1pc = "wfe" /\ ~core1_event

\* C31: Core 1 is suspended in wait-for-event only while the queue is empty
\* and the DMA lead is at least TARGET_LEAD; it is never suspended while a
\* sample is queued (a push that has published its head and not yet
\* signalled is let through) or while the lead is below TARGET_LEAD.
C31_WfeOnlyWithCushion ==
    Suspended =>
        /\ pushPc = "idle" => pdm_head = pdm_tail
        /\ Lead(local_pdm_write, dma_read_idx) >= TARGET_LEAD

\* the decision alone: __wfe() is reached only from a pass of the wait loop
\* that found the lead above TARGET_LEAD + 128, and a sample queued since
\* then has latched the event
C31_WfeDecision ==
    /\ [][(c1pc = "wait_dma" /\ c1pc' = "wfe")
            => Lead(local_pdm_write, dma_read_idx) > TARGET_LEAD + SLEEP_MARGIN]_vars
    /\ [](Suspended /\ pushPc = "idle" => pdm_head = pdm_tail)

\* C32: the S/PDIF clock divider is reprogrammed only by the control plane
\* between packets (the rate step of the main loop), never by the step that
\* handles a DMA completion and starts the next transfer.
C32_DividerOnlyFromControlPlane ==
    [][spdif_divider' # spdif_divider
         => (loopPc = "rate" /\ loopPc' = "tud_task" /\ started' = started)]_vars

\* clamp(drift * num / den, -cap, +cap), whatever the size of the drift
ClampScaled(drift, num, den, cap) ==
    LET big == (cap * den) \div num + 1 IN
      IF drift >= big THEN cap
      ELSE IF drift <= -big THEN -cap
      ELSE Clamp(CDiv(drift * num, den), cap)

\* C34: once the drift epoch is valid, the transmitted feedback equals
\* N - correction with correction = clamp(drift * k, -cap, +cap) (k = 16/10
\* and cap = 8192 in update_audio_feedback, k = 50/1000 and cap = 500 in
\* _as_sync_packet): it lies within 0.5 sample/frame (8192 in 10.14) of the
\* nominal N, and a positive drift never yields a value above N.
C34_FeedbackIsClampedCorrection ==
    fb_out # NotWritten =>
        LET N == Nominal1014(fb_in.freq)
            correction == IF fb_in.path = "tud"
                            THEN ClampScaled(fb_in.drift, 16, 10, 8192)
                            ELSE ClampScaled(fb_in.drift, 50, 1000, 500)
        IN /\ fb_out[1] = N - correction
           /\ Abs(fb_out[1] - N) <= 8192
           /\ fb_in.drift > 0 => fb_out[1] <= N

ResetStep ==
    /\ usb_events # <<>>
    /\ Head(usb_events).req = "reset"
    /\ usb_events' = Tail(usb_events)

\* C35: after REQ_FACTORY_RESET every parameter held in RAM that a save
\* would persist (filter recipes, preamp, bypass, per-channel delays, gains
\* and mutes, loudness settings) equals its factory default, whatever
\* updates preceded the reset.
C35_FactoryResetGivesDefaults ==
    [][ResetStep => FlashData' = DefaultData]_vars

\* every persisted parameter but the delays is at its default after the reset
C35_AllButDelaysReset ==
    [][ResetStep
         => [FlashData EXCEPT !.delays = DefaultData.delays]' = DefaultData]_vars

\* the main loop has nothing left to apply
AtRest ==
    /\ mainPc = "wfe"
    /\ ~main_event
    /\ ~eq_update_pending
    /\ ~rate_change_pending

\* the slots below their channel's band count
ActiveSlots ==
    {i \in 0..(TableSlots - 1) :
        (i % MAX_BANDS) < channel_band_counts[(i \div MAX_BANDS) + 1]}

\* C36: whenever no update is pending, every active biquad equals the
\* coefficients compiled from its current filter recipe at the sample rate
\* the hardware is configured for, after any sequence of EQ updates and rate
\* changes, supported or not.
C36_BiquadsMatchRecipes ==
    AtRest => \A i \in ActiveSlots :
        filters[i] = dsp_compute_coefficients(filter_recipes[i], active_rate)

\* C37: after any sequence of single-band EQ updates and rate changes, the
\* channel-level bypass flag of a channel is true exactly when every active
\* band of that channel has its bypass flag set.
C37_ChannelBypassIffAllBands ==
    AtRest => \A ch \in 0..(NUM_CHANNELS - 1) :
        channel_bypassed[ch] <=>
            \A b \in 0..(channel_band_counts[ch + 1] - 1) :
                filters[ch * MAX_BANDS + b].bypass

\* C33: a synchronized enable starts all instances of the group on the same
\* cycle: every instance of the call has its state machine running when the
\* call returns and none has been shifting for longer than another, whichever
\* PIO blocks the instances are on and whatever their enabled state was.
C33_SyncStartsTogether ==
    [][sync_calls' # sync_calls =>
          \A i, j \in sync_instances' :
              sm_age'[i] # Stopped /\ sm_age'[i] = sm_age'[j]]_vars

\* the same for a group whose instances share one PIO block and were all
\* disabled before the call
C33_SameBlockFromStopped ==
    [][(/\ sync_calls' # sync_calls
        /\ \A i, j \in sync_instances' :
              /\ spdif_instances[i].pio = spdif_instances[j].pio
              /\ sm_age[i] = Stopped)
       => \A i, j \in sync_instances' :
              sm_age'[i] # Stopped /\ sm_age'[i] = sm_age'[j]]_vars

\* C38: after any sequence of audio_spdif_set_enabled and
\* audio_spdif_enable_sync calls, the reference count of a DMA IRQ line
\* equals the number of enabled instances on that line, and the line is
\* enabled exactly when the count is non-zero.
C38_IrqCountIsEnabledInstances ==
    \A q \in 0..(DmaIrqLines - 1) :
        /\ irq_enable_count[q] =
              Cardinality({i \in Instances :
                              /\ spdif_instances[i].enabled
                              /\ spdif_instances[i].dma_irq = q})
        /\ irq_line_enabled[q] <=> irq_enable_count[q] # 0

\* the second half alone: the line is enabled exactly when its count is not 0
C38_LineFollowsCount ==
    \A q \in 0..(DmaIrqLines - 1) :
        irq_line_enabled[q] <=> irq_enable_count[q] # 0

\* C39: for any sequence of enable, disable and synchronized-enable calls
\* interleaved with DMA completion interrupts, a transfer is started only
\* when the instance has no buffer in flight, so that every buffer of an
\* instance is in its pool or is the one being played: none is lost.
C39_NoBufferLost ==
    \A i \in Instances :
        consumer_pool[i].free \cup consumer_pool[i].full
            \cup ({spdif_instances[i].playing_buffer} \ {NoBuffer}) = Buffers

\* C40: the modulator's write index always stays ahead of the DMA read index
\* by more than 0 and at most BUFFER/2 words: whenever Core B moves its write
\* index, by a burst of queued samples or otherwise, the new index is neither
\* on the read index nor so far ahead that the next iteration classifies it
\* as an underrun.
C40_WriteStaysAhead ==
    [][local_pdm_write' # local_pdm_write =>
          /\ Lead(local_pdm_write', dma_read_idx') > 0
          /\ ~IsUnderrun(Lead(local_pdm_write', dma_read_idx'))]_vars

\* the same while the DMA read index has not moved since the power-up
C40_BurstAlone ==
    [][(local_pdm_write' # local_pdm_write /\ dma_read_idx' = 0) =>
          /\ Lead(local_pdm_write', dma_read_idx') > 0
          /\ ~IsUnderrun(Lead(local_pdm_write', dma_read_idx'))]_vars

====
